---- MODULE Spec2Model ----
(***************************************************************************)
(* A model of the WOFF2 decoder of src/src/woff2_dec.cc (with the checksum *)
(* helper of src/unnamed/part_000).                                        *)
(*                                                                         *)
(* Spec      the whole decoder, ConvertWOFF2ToTTF: ReadWOFF2Header,        *)
(*           WriteHeaders, the decompression step and ReconstructFont,     *)
(*           one table per step, on byte-level output.                     *)
(*                                                                         *)
(* 32-bit unsigned values that can exceed 2^31 (checksums) are pairs       *)
(* <<high 16 bits, low 16 bits>>; offsets and lengths are plain numbers.   *)
(***************************************************************************)
EXTENDS Integers, Sequences, FiniteSets, TLC

VARIABLES
  pc,                \* where the driver stands
  input,             \* the WOFF2 file handed to ConvertWOFF2ToTTF (never changes)
  hdr,               \* WOFF2Header
  metadata,          \* RebuildMetadata
  uncompressed_buf,  \* the decompressed payload (ReconstructFont zeroes head's adjustment in it)
  out,               \* the bytes of the WOFF2Out sink
  frame,             \* the locals of the function being stepped
  hist               \* history: one record per table ReconstructFont has processed

vars == <<pc, input, hdr, metadata, uncompressed_buf, out, frame, hist>>

----------------------------------------------------------------------------
(* Bounds of the model.                                                     *)

\* tables in the directory of a single font
MaxTables == 3
\* tables in the directory of a collection
MaxTtcTables == 2
\* table indices listed by all the fonts of a collection together
MaxTtcIndices == 3
\* bytes of the compressed stream of an input
CompressedLength == 5
\* glyphs of a font handed to ReconstructTransformedHmtx
MaxHmtxGlyphs == 2
\* glyphs of a transformed glyf table handed to ReconstructGlyf
MaxGlyphs == 3
\* glyphs of a finished ReconstructGlyf loop (SpecLoca)
MaxLocaGlyphs == 3
\* points of a glyph drawn from every combination of triplets (SpecPoints)
MaxPoints == 3
\* the longest run of equal points (SpecPoints)
MaxRun == 258
\* tables of a collection with glyf and loca tables, indices listed by a font
MaxTtcGlyfTables == 3
MaxTtcGlyfIndices == 3
\* StoreOffsetTable is called with every table count up to this one, and
\* with the counts around the larger powers of two
MaxSmallNumTables == 64

----------------------------------------------------------------------------
(* Numbers, bytes, spans.                                                   *)

Min(a, b) == IF a < b THEN a ELSE b
Max(a, b) == IF a > b THEN a ELSE b

Range(s) == { s[k] : k \in DOMAIN s }

Round4(v) == ((v + 3) \div 4) * 4

\* std::span::subspan(offset, count) and subspan(offset)
Subspan(buf, offset, count) == SubSeq(buf, offset + 1, offset + count)
SubspanFrom(buf, offset) == SubSeq(buf, offset + 1, Len(buf))

Zeroes(n) == [k \in 1..n |-> 0]

\* StoreU32 / Store16 of a number: big-endian bytes
StoreU32(v) == << (v \div 16777216) % 256, (v \div 65536) % 256,
                  (v \div 256) % 256, v % 256 >>
Store16(v) == << (v \div 256) % 256, v % 256 >>

\* a uint32_t as <<high half, low half>>
ToU32(n) == << (n \div 65536) % 65536, n % 65536 >>
AddU32(a, b) ==
  LET lo == a[2] + b[2]
      hi == a[1] + b[1] + (lo \div 65536)
  IN  << hi % 65536, lo % 65536 >>
NegU32(a) == AddU32(<< 65535 - a[1], 65535 - a[2] >>, << 0, 1 >>)
SubU32(a, b) == AddU32(a, NegU32(b))
StoreSum32(a) == << a[1] \div 256, a[1] % 256, a[2] \div 256, a[2] % 256 >>

\* WOFF2Out::Write(buf, n): append
SinkAppend(sink, bytes) == sink \o bytes
\* WOFF2Out::Write(buf, offset, n): overwrite inside what is written
SinkCanOverwrite(sink, offset, n) == offset + n <= Len(sink)
SinkOverwrite(sink, offset, bytes) ==
  [k \in 1..Len(sink) |->
     IF k > offset /\ k <= offset + Len(bytes) THEN bytes[k - offset] ELSE sink[k]]

----------------------------------------------------------------------------
(* ComputeULongSum (src/unnamed/part_000).                                  *)

WordAt(buf, i) == << buf[i + 1] * 256 + buf[i + 2], buf[i + 3] * 256 + buf[i + 4] >>

RECURSIVE SumAligned(_, _, _)
SumAligned(buf, i, aligned_size) ==
  IF i >= aligned_size THEN << 0, 0 >>
  ELSE AddU32(WordAt(buf, i), SumAligned(buf, i + 4, aligned_size))

\* the tail of 1..3 bytes, as if padded to 4 with zeroes
TailWord(buf, aligned_size) ==
  LET b(k) == IF aligned_size + k < Len(buf) THEN buf[aligned_size + k + 1] ELSE 0
  IN  << b(0) * 256 + b(1), b(2) * 256 + b(3) >>

ComputeULongSum(buf) ==
  LET aligned_size == (Len(buf) \div 4) * 4
      checksum == SumAligned(buf, 0, aligned_size)
  IN  IF Len(buf) # aligned_size
      THEN AddU32(checksum, TailWord(buf, aligned_size))
      ELSE checksum

CollectionHeaderSize(header_version, num_fonts) ==
  (IF header_version = 131072 THEN 12 ELSE 0)
  + (IF header_version = 65536 \/ header_version = 131072
     THEN 12 + 4 * num_fonts ELSE 0)

----------------------------------------------------------------------------
(* Tags and constants of the headers the source includes.                   *)

kWoff2Signature == 2001684018   \* 'wOF2'
kTtcFontFlavor == 1953784678    \* 'ttcf'
kGlyfTableTag == 1735162214
kHeadTableTag == 1751474532
kHheaTableTag == 1751672161
kHmtxTableTag == 1752003704
kLocaTableTag == 1819239265
kNameTableTag == 1851878757
kWoff2FlagsTransform == 256
kSfntHeaderSize == 12
kSfntEntrySize == 16
kCheckSumAdjustmentOffset == 8

\* 0xB1B0AFBA
kCheckSumMagic == << 45488, 44986 >>

----------------------------------------------------------------------------
(* The input: the fields of a WOFF2 file as ReadWOFF2Header reads them.     *)
(* A directory entry carries the bytes the decompressed payload holds for   *)
(* its table (data); transform_length is on the wire only for a             *)
(* transformed table.                                                       *)

Entry(tag, xform_version, dst_length, data) ==
  [tag |-> tag, xform_version |-> xform_version, dst_length |-> dst_length,
   transform_length |-> Len(data), data |-> data]

\* the rule of ReadTableDirectory: xform 0 transforms glyf and loca, non-0 the others
IsTransformed(tag, xform_version) ==
  IF tag = kGlyfTableTag \/ tag = kLocaTableTag
  THEN xform_version = 0
  ELSE xform_version # 0

\* bytes ReadBase128 consumes for a value (shortest encoding)
Base128Size(v) ==
  IF v < 128 THEN 1 ELSE IF v < 16384 THEN 2 ELSE IF v < 2097152 THEN 3
  ELSE IF v < 268435456 THEN 4 ELSE 5

\* bytes ReadTableDirectory consumes for one entry (a known tag: one flag byte)
EntryBytes(e) ==
  1 + Base128Size(e.dst_length)
    + (IF IsTransformed(e.tag, e.xform_version)
       THEN Base128Size(e.transform_length) ELSE 0)

\* f[lo] + ... + f[hi], by halves
RECURSIVE SumRange(_, _, _)
SumRange(f, lo, hi) ==
  IF lo > hi THEN 0
  ELSE IF lo = hi THEN f[lo]
  ELSE SumRange(f, lo, (lo + hi) \div 2) + SumRange(f, (lo + hi) \div 2 + 1, hi)

SumOver(f, n) == SumRange(f, 1, n)

DirectoryBytes(directory) ==
  SumOver([k \in DOMAIN directory |-> EntryBytes(directory[k])], Len(directory))

\* bytes of the collection directory: version, num_fonts, then per font
\* num_tables, flavor and one byte per index (all below 253)
CollectionBytes(fonts) ==
  4 + 1 + SumOver([k \in DOMAIN fonts |-> 1 + 4 + Len(fonts[k].table_indices)],
                  Len(fonts))

\* seqs[lo] \o ... \o seqs[hi], by halves
RECURSIVE ConcatRange(_, _, _)
ConcatRange(seqs, lo, hi) ==
  IF lo > hi THEN << >>
  ELSE IF lo = hi THEN seqs[lo]
  ELSE ConcatRange(seqs, lo, (lo + hi) \div 2)
       \o ConcatRange(seqs, (lo + hi) \div 2 + 1, hi)

Concat(seqs, n) == ConcatRange(seqs, 1, n)

\* what the Brotli decoder yields for the compressed stream of this file
Payload(directory) ==
  Concat([k \in DOMAIN directory |-> directory[k].data], Len(directory))

----------------------------------------------------------------------------
(* ReadTableDirectory and ReadWOFF2Header.                                  *)

\* uint32_t a + b wraps around
Wraps32(a, b) ==
  (a \div 65536) + (b \div 65536) + (((a % 65536) + (b % 65536)) \div 65536) >= 65536

RECURSIVE ReadTableDirectoryFrom(_, _, _, _)
ReadTableDirectoryFrom(directory, i, src_offset, tables) ==
  IF i > Len(directory) THEN [ok |-> TRUE, tables |-> tables]
  ELSE
    LET e == directory[i]
        transformed == IsTransformed(e.tag, e.xform_version)
        flags == (IF transformed THEN kWoff2FlagsTransform ELSE 0) + e.xform_version
        transform_length == IF transformed THEN e.transform_length ELSE e.dst_length
    IN  IF transformed /\ e.tag = kLocaTableTag /\ transform_length # 0
        THEN [ok |-> FALSE, tables |-> tables]
        ELSE IF Wraps32(src_offset, transform_length)
        THEN [ok |-> FALSE, tables |-> tables]
        ELSE ReadTableDirectoryFrom(directory, i + 1, src_offset + transform_length,
               Append(tables,
                 [tag |-> e.tag, flags |-> flags, src_offset |-> src_offset,
                  src_length |-> transform_length,
                  transform_length |-> transform_length,
                  dst_offset |-> 0, dst_length |-> e.dst_length]))

ReadTableDirectory(directory) == ReadTableDirectoryFrom(directory, 1, 0, << >>)

HasTransform(table) == (table.flags \div kWoff2FlagsTransform) % 2 = 1

\* the index of the last table with this tag among the listed ones, 0 when none
\* (glyf_idx and loca_idx of ReadWOFF2Header)
LastIdxOfTag(tables, table_indices, tag) ==
  LET at == { k \in DOMAIN table_indices : tables[table_indices[k] + 1].tag = tag }
  IN  IF at = {} THEN 0
      ELSE table_indices[CHOOSE k \in at : \A k2 \in at : k2 <= k]

\* one font of the collection directory is read without failure
TtcFontAccepted(tables, font) ==
  /\ Len(font.table_indices) # 0
  /\ \A k \in DOMAIN font.table_indices : font.table_indices[k] < Len(tables)
  /\ LET glyf_idx == LastIdxOfTag(tables, font.table_indices, kGlyfTableTag)
         loca_idx == LastIdxOfTag(tables, font.table_indices, kLocaTableTag)
     IN  (glyf_idx > 0 \/ loca_idx > 0)
           => ~(glyf_idx > loca_idx \/ loca_idx - glyf_idx # 1)

\* First table goes after all the headers, table directory, etc
ComputeOffsetToFirstTable(h) ==
  IF h.header_version # 0
  THEN CollectionHeaderSize(h.header_version, Len(h.ttc_fonts))
       + kSfntHeaderSize * Len(h.ttc_fonts)
       + SumOver([k \in DOMAIN h.ttc_fonts |->
                    kSfntEntrySize * Len(h.ttc_fonts[k].table_indices)],
                 Len(h.ttc_fonts))
  ELSE kSfntHeaderSize + kSfntEntrySize * h.num_tables

EmptySpan == [offset |-> 0, size |-> 0]

\* WOFF2Header hdr; before ReadWOFF2Header
InitHdr ==
  [flavor |-> 0, header_version |-> 0, num_tables |-> 0,
   compressed_buf |-> EmptySpan, uncompressed_size |-> 0,
   tables |-> << >>, ttc_fonts |-> << >>]

\* lines 1086-1090 as if only a file longer than reported were rejected
LongerThanReportedRejected(size, reported_length) ==
  size < 12 \/ size > reported_length

\* lines 1086-1090: the length field is missing or is not the input's size
ReportedLengthRejected(size, reported_length) ==
  size < 12 \/ size # reported_length

\* The function up to and including the subspan of line 1219: the header as
\* far as it was filled, and whether the function has returned failure by
\* then (status "fail"), or stands at the subspan (status "span").
ReadWOFF2HeaderToSpan(in) ==
  LET size == in.length
      is_ttc == in.flavor = kTtcFontFlavor
      h1 == [InitHdr EXCEPT !.flavor = in.flavor]
      h2 == [h1 EXCEPT !.num_tables = in.num_tables]
      dir == ReadTableDirectory(in.directory)
      dir_end == 48 + DirectoryBytes(in.directory)
      h3 == [h2 EXCEPT !.tables = dir.tables]
      last_table == dir.tables[Len(dir.tables)]
      h4 == [h3 EXCEPT !.uncompressed_size =
                          last_table.src_offset + last_table.src_length]
      h5 == [h4 EXCEPT !.header_version = in.header_version]
      h6 == [h5 EXCEPT !.ttc_fonts =
               [k \in DOMAIN in.fonts |->
                  [flavor |-> in.fonts[k].flavor, dst_offset |-> 0,
                   header_checksum |-> << 0, 0 >>,
                   table_indices |-> in.fonts[k].table_indices]]]
      compressed_offset == dir_end + (IF is_ttc THEN CollectionBytes(in.fonts) ELSE 0)
      h7 == [(IF is_ttc THEN h6 ELSE h4) EXCEPT !.compressed_buf =
               [offset |-> compressed_offset, size |-> in.compressed_length]]
      Fail(h) == [status |-> "fail", hdr |-> h, offset |-> 0]
  IN
  IF size < 8 \/ in.signature # kWoff2Signature THEN Fail(InitHdr)
  ELSE IF ReportedLengthRejected(size, in.reported_length) THEN Fail(h1)
  ELSE IF size < 14 \/ in.num_tables = 0 THEN Fail(h2)
  ELSE IF size < 40 THEN Fail(h2)
  ELSE IF in.meta_offset # 0
          /\ (in.meta_offset >= size \/ size - in.meta_offset < in.meta_length)
       THEN Fail(h2)
  ELSE IF size < 48 THEN Fail(h2)
  ELSE IF in.priv_offset # 0
          /\ (in.priv_offset >= size \/ size - in.priv_offset < in.priv_length)
       THEN Fail(h2)
  ELSE IF ~dir.ok \/ dir_end > size THEN Fail(h2)
  ELSE IF Wraps32(last_table.src_offset, last_table.src_length) THEN Fail(h4)
  ELSE IF is_ttc /\ (dir_end + 4 > size
                     \/ (in.header_version # 65536 /\ in.header_version # 131072))
       THEN Fail(h5)
  ELSE IF is_ttc /\ (dir_end + 5 > size \/ Len(in.fonts) = 0) THEN Fail(h5)
  ELSE IF is_ttc /\ (compressed_offset > size
                     \/ \E k \in DOMAIN in.fonts : ~TtcFontAccepted(dir.tables, in.fonts[k]))
       THEN Fail(h6)
  ELSE [status |-> "span", hdr |-> h7, offset |-> compressed_offset]

\* ReadWOFF2Header after the subspan (lines 1221-1256): TRUE on success
ReadWOFF2HeaderTail(in, compressed_offset) ==
  LET size == in.length
      src_offset0 == Round4(compressed_offset + in.compressed_length)
      src_offset1 == IF in.meta_offset # 0
                     THEN Round4(in.meta_offset + in.meta_length) ELSE src_offset0
      src_offset2 == IF in.priv_offset # 0
                     THEN Round4(in.priv_offset + in.priv_length) ELSE src_offset1
  IN  /\ src_offset0 <= size
      /\ (in.meta_offset # 0 => src_offset0 = in.meta_offset)
      /\ (in.priv_offset # 0 => src_offset1 = in.priv_offset)
      /\ src_offset2 = Round4(size)

----------------------------------------------------------------------------
(* WriteHeaders.                                                            *)

RECURSIVE MaxPow2From(_, _)
MaxPow2From(num_tables, max_pow2) ==
  IF 2 ^ (max_pow2 + 1) <= num_tables
  THEN MaxPow2From(num_tables, max_pow2 + 1)
  ELSE max_pow2

\* Writes a single Offset Table entry: 12 bytes
StoreOffsetTable(flavor, num_tables) ==
  LET max_pow2 == MaxPow2From(num_tables, 0)
      output_search_range == ((2 ^ max_pow2) * 16) % 65536
  IN  StoreU32(flavor) \o Store16(num_tables) \o Store16(output_search_range)
      \o Store16(max_pow2) \o Store16(num_tables * 16 - output_search_range)

StoreTableEntry(tag) == StoreU32(tag) \o Zeroes(12)

\* std::sort of the tables by tag, as the sequence of their tags
RECURSIVE SortTags(_)
SortTags(tags) ==
  IF tags = << >> THEN << >>
  ELSE LET m == CHOOSE t \in Range(tags) : \A u \in Range(tags) : t <= u
           k == CHOOSE j \in DOMAIN tags : tags[j] = m
       IN  << m >> \o SortTags(SubSeq(tags, 1, k - 1) \o SubSeq(tags, k + 1, Len(tags)))

\* lines 1267-1276: the map tag -> table index (the last listed wins) is
\* written back over the first entries of the font's index vector
SortTtcIndices(tables, table_indices) ==
  LET TagOf(ix) == tables[ix + 1].tag
      tags == { TagOf(table_indices[k]) : k \in DOMAIN table_indices }
      sorted == SortTags(CHOOSE q \in [1..Cardinality(tags) -> tags] : Range(q) = tags)
      sorted_index_by_tag(tag) == LastIdxOfTag(tables, table_indices, tag)
  IN  [k \in DOMAIN table_indices |->
         IF k <= Len(sorted) THEN sorted_index_by_tag(sorted[k]) ELSE table_indices[k]]

\* table_entry_by_tag after the entries of `tags` were written from `offset`
\* on: the last entry written for a tag stays in the map
EntryByTag(tags, offset) ==
  [t \in Range(tags) |->
     LET k == CHOOSE j \in DOMAIN tags :
                 tags[j] = t /\ \A j2 \in DOMAIN tags : tags[j2] = t => j2 <= j
     IN  offset + kSfntEntrySize * (k - 1)]

EntriesBytes(tags) ==
  Concat([k \in DOMAIN tags |-> StoreTableEntry(tags[k])], Len(tags))

\* a WOFF2FontInfo whose num_glyphs did not start at 0
NewFontInfoOneGlyph(table_entry_by_tag) ==
  [num_glyphs |-> 1, index_format |-> 0, num_hmetrics |-> 0, x_mins |-> << >>,
   table_entry_by_tag |-> table_entry_by_tag]

\* a WOFF2FontInfo as font_infos.resize makes it (lines 1304, 1326)
NewFontInfo(table_entry_by_tag) ==
  [num_glyphs |-> 0, index_format |-> 0, num_hmetrics |-> 0, x_mins |-> << >>,
   table_entry_by_tag |-> table_entry_by_tag]

\* the offset of the offset table of font k (1-based) of a collection
TtcFontOffset(h, indices, k) ==
  CollectionHeaderSize(h.header_version, Len(h.ttc_fonts))
  + SumOver([j \in 1..(k - 1) |-> kSfntHeaderSize + kSfntEntrySize * Len(indices[j])],
            k - 1)

\* The whole of WriteHeaders: the header bytes, and the header and metadata
\* as it leaves them.
WriteHeaders(h) ==
  IF h.header_version # 0
  THEN
    LET n == Len(h.ttc_fonts)
        indices == [k \in 1..n |-> SortTtcIndices(h.tables, h.ttc_fonts[k].table_indices)]
        TagsOf(k) == [j \in DOMAIN indices[k] |-> h.tables[indices[k][j] + 1].tag]
        FontBytes(k) == StoreOffsetTable(h.ttc_fonts[k].flavor, Len(indices[k]))
                        \o EntriesBytes(TagsOf(k))
        output ==
          StoreU32(h.flavor) \o StoreU32(h.header_version) \o StoreU32(n)
          \o Concat([k \in 1..n |-> StoreU32(TtcFontOffset(h, indices, k))], n)
          \o (IF h.header_version = 131072 THEN Zeroes(12) ELSE << >>)
          \o Concat([k \in 1..n |-> FontBytes(k)], n)
    IN  [output |-> output,
         header_checksum |-> ComputeULongSum(output),
         ttc_fonts |->
           [k \in 1..n |->
              [flavor |-> h.ttc_fonts[k].flavor,
               dst_offset |-> TtcFontOffset(h, indices, k),
               header_checksum |-> ComputeULongSum(FontBytes(k)),
               table_indices |-> indices[k]]],
         font_infos |->
           [k \in 1..n |->
              NewFontInfo(EntryByTag(TagsOf(k),
                            TtcFontOffset(h, indices, k) + kSfntHeaderSize))]]
  ELSE
    LET sorted_tables == SortTags([k \in DOMAIN h.tables |-> h.tables[k].tag])
        output == StoreOffsetTable(h.flavor, h.num_tables) \o EntriesBytes(sorted_tables)
    IN  [output |-> output,
         header_checksum |-> ComputeULongSum(output),
         ttc_fonts |-> h.ttc_fonts,
         font_infos |-> << NewFontInfo(EntryByTag(sorted_tables, kSfntHeaderSize)) >>]

----------------------------------------------------------------------------
(* Buffer reads (big-endian, bounds-checked by the caller of these).        *)

U16At(buf, i) == buf[i + 1] * 256 + buf[i + 2]
\* a u32; values of 2^31 and more read as 2^31 - 1, which is above every
\* length they are compared with
U32At(buf, i) ==
  IF buf[i + 1] >= 128 THEN 2147483647
  ELSE ((buf[i + 1] * 256 + buf[i + 2]) * 256 + buf[i + 3]) * 256 + buf[i + 4]
\* an int16_t
S16At(buf, i) == LET u == U16At(buf, i) IN IF u >= 32768 THEN u - 65536 ELSE u

----------------------------------------------------------------------------
(* ReconstructGlyf: the header of the transformed glyf table.               *)

kNumSubStreams == 7
kDefaultGlyphBuf == 5120

RECURSIVE SubstreamOffsets(_, _, _, _, _)
\* lines 444-454: the offsets of the seven sub-streams in `data`, or failure
SubstreamOffsets(file, transform_length, i, offset, acc) ==
  IF i = kNumSubStreams THEN [ok |-> TRUE, spans |-> acc, offset |-> offset]
  ELSE IF Len(file) < 8 + 4 * i + 4 THEN [ok |-> FALSE, spans |-> acc, offset |-> offset]
  ELSE LET substream_size == U32At(file, 8 + 4 * i)
       IN  IF substream_size > transform_length - offset
           THEN [ok |-> FALSE, spans |-> acc, offset |-> offset]
           ELSE SubstreamOffsets(file, transform_length, i + 1, offset + substream_size,
                  Append(acc, [offset |-> offset, size |-> substream_size]))

\* Lines 411-489 of ReconstructGlyf: everything before the loop over the
\* glyphs.  data is the span the caller passes, transform_length and
\* loca_dst_length the fields of the glyf and loca tables.
ReconstructGlyfHeader(data, transform_length, loca_dst_length) ==
  LET file == SubspanFrom(data, transform_length)
      flags == U16At(file, 2)
      has_overlap_bitmap == flags % 2 = 1
      num_glyphs == U16At(file, 4)
      index_format == U16At(file, 6)
      expected_loca_dst_length == (IF index_format # 0 THEN 4 ELSE 2) * (num_glyphs + 1)
      subs == SubstreamOffsets(file, transform_length, 0, (2 + kNumSubStreams) * 4, << >>)
      overlap_bitmap_length == (num_glyphs + 7) \div 8
      bitmap_length == ((num_glyphs + 31) \div 32) * 4
      Fail(where, ng, fmt) ==
        [ok |-> FALSE, where |-> where, num_glyphs |-> ng, index_format |-> fmt]
  IN
  IF Len(file) < 2 THEN Fail("version", 0, 0)
  ELSE IF Len(file) < 4 THEN Fail("flags", 0, 0)
  ELSE IF Len(file) < 6 THEN Fail("num_glyphs", 0, 0)
  ELSE IF Len(file) < 8 THEN Fail("index_format", num_glyphs, 0)
  ELSE IF loca_dst_length # expected_loca_dst_length
       THEN Fail("loca_length", num_glyphs, index_format)
  ELSE IF (2 + kNumSubStreams) * 4 > transform_length
       THEN Fail("header_size", num_glyphs, index_format)
  ELSE IF ~subs.ok THEN Fail("substreams", num_glyphs, index_format)
  ELSE IF has_overlap_bitmap /\ overlap_bitmap_length > transform_length - subs.offset
       THEN Fail("overlap_bitmap", num_glyphs, index_format)
  ELSE IF bitmap_length > subs.spans[6].size
       THEN Fail("bbox_bitmap", num_glyphs, index_format)
  ELSE [ok |-> TRUE, where |-> "loop", num_glyphs |-> num_glyphs,
        index_format |-> index_format, has_overlap_bitmap |-> has_overlap_bitmap,
        spans |-> subs.spans, overlap_offset |-> subs.offset,
        bitmap_length |-> bitmap_length]

----------------------------------------------------------------------------
(* ReconstructTransformedHmtx.                                              *)

\* lines 715-729 as if the flags were rejected when bits 0 and 1 are both set
RejectsBothBitsSet(hmtx_flags) ==
  hmtx_flags \div 4 # 0 \/ hmtx_flags % 4 = 3

\* lines 715-729: the flags byte is rejected
HmtxFlagsRejected(hmtx_flags) ==
  LET has_proportional_lsbs == hmtx_flags % 2 = 0
      has_monospace_lsbs == (hmtx_flags \div 2) % 2 = 0
  IN  \* Bits 2-7 are reserved and MUST be zero.
      \/ hmtx_flags \div 4 # 0
      \* you say you transformed but there is little evidence of it
      \/ has_proportional_lsbs /\ has_monospace_lsbs

\* lines 744-766 as if every lsb were taken from x_mins
HmtxLsbAlwaysXMin(transformed_buf, num_hmetrics, x_mins, i) ==
  x_mins[i + 1]

\* lines 744-766: lsbs[i], read from the stream or taken from x_mins
HmtxLsb(transformed_buf, num_hmetrics, x_mins, i) ==
  LET has_proportional_lsbs == transformed_buf[1] % 2 = 0
      has_monospace_lsbs == (transformed_buf[1] \div 2) % 2 = 0
      widths_end == 1 + 2 * num_hmetrics
      proportional_end ==
        widths_end + (IF has_proportional_lsbs THEN 2 * num_hmetrics ELSE 0)
  IN  IF i < num_hmetrics
      THEN IF has_proportional_lsbs
           THEN S16At(transformed_buf, widths_end + 2 * i)
           ELSE x_mins[i + 1]
      ELSE IF has_monospace_lsbs
           THEN S16At(transformed_buf, proportional_end + 2 * (i - num_hmetrics))
           ELSE x_mins[i + 1]

\* lines 734-742 left out
HmtxCountsUnchecked(num_glyphs, num_hmetrics) == FALSE

\* lines 734-742: more metrics than glyphs, or no metric at all
HmtxCountsRejected(num_glyphs, num_hmetrics) ==
  num_hmetrics > num_glyphs \/ num_hmetrics < 1

\* The whole function: ok, and on success the table it appends to the sink
\* and the checksum it returns.
ReconstructTransformedHmtx(transformed_buf, num_glyphs, num_hmetrics, x_mins) ==
  LET hmtx_flags == transformed_buf[1]
      has_proportional_lsbs == hmtx_flags % 2 = 0
      has_monospace_lsbs == (hmtx_flags \div 2) % 2 = 0
      widths_end == 1 + 2 * num_hmetrics
      proportional_end ==
        widths_end + (IF has_proportional_lsbs THEN 2 * num_hmetrics ELSE 0)
      monospace_end ==
        proportional_end
        + (IF has_monospace_lsbs THEN 2 * (num_glyphs - num_hmetrics) ELSE 0)
      advance_widths(i) == U16At(transformed_buf, 1 + 2 * i)
      lsbs(i) == HmtxLsb(transformed_buf, num_hmetrics, x_mins, i)
      hmtx_table ==
        Concat([k \in 1..num_glyphs |->
                  (IF k - 1 < num_hmetrics THEN Store16(advance_widths(k - 1)) ELSE << >>)
                  \o Store16(lsbs(k - 1))],
               num_glyphs)
      Fail == [ok |-> FALSE, table |-> << >>, checksum |-> << 0, 0 >>]
  IN
  IF Len(transformed_buf) < 1 THEN Fail
  ELSE IF HmtxFlagsRejected(hmtx_flags) THEN Fail
  ELSE IF HmtxCountsRejected(num_glyphs, num_hmetrics) THEN Fail
  ELSE IF Len(transformed_buf) < monospace_end THEN Fail
  ELSE [ok |-> TRUE, table |-> hmtx_table, checksum |-> ComputeULongSum(hmtx_table)]

----------------------------------------------------------------------------
(* ReconstructFont.                                                         *)

\* Tables(hdr, font_index): the tables of the font, as 1-based positions in
\* hdr.tables (the function returns pointers into that vector)
Tables(h, font_index) ==
  IF h.header_version # 0
  THEN [k \in DOMAIN h.ttc_fonts[font_index + 1].table_indices |->
          h.ttc_fonts[font_index + 1].table_indices[k] + 1]
  ELSE [k \in DOMAIN h.tables |-> k]

\* FindTable: the first of `tables` with the tag, 0 (NULL) when none
FindTable(h, tables, tag) ==
  LET at == { k \in DOMAIN tables : h.tables[tables[k]].tag = tag }
  IN  IF at = {} THEN 0
      ELSE tables[CHOOSE k \in at : \A k2 \in at : k <= k2]

\* bytes Pad4 appends
\* Pad4 left out
PaddingSkipped(sink) == sink

Pad4(sink) == SinkAppend(sink, Zeroes(Round4(Len(sink)) - Len(sink)))

\* the entry looked up one field too far
EntryOffsetShifted(info, tag) ==
  IF tag \in DOMAIN info.table_entry_by_tag THEN info.table_entry_by_tag[tag] + 4 ELSE 0

\* std::map::operator[] on table_entry_by_tag: a missing tag reads as 0
EntryOffset(info, tag) ==
  IF tag \in DOMAIN info.table_entry_by_tag THEN info.table_entry_by_tag[tag] ELSE 0

\* ReadNumHMetrics
ReadNumHMetrics(data) ==
  IF Len(data) < 36 THEN [ok |-> FALSE, num_hmetrics |-> 0]
  ELSE [ok |-> TRUE, num_hmetrics |-> U16At(data, 34)]


\* One pass of the loop over the tables in ReconstructFont (lines 959-1055),
\* for the table at position fr.i of the font: the state it leaves and
\* whether it returned failure.  status "glyf" stands for ReconstructGlyf
\* having passed its header and entered the loop over the glyphs.
\* line 995 left out
KeepCheckSumAdjustment(ubuf, table) == ubuf

\* line 995: checkSumAdjustment = 0, stored through the span into the payload
ClearCheckSumAdjustment(ubuf, table) ==
  SinkOverwrite(ubuf, table.src_offset + kCheckSumAdjustmentOffset, Zeroes(4))

ReconstructFontTable(h, md, ubuf, sink, fr) ==
  LET tables == Tables(h, fr.font_index)
      tix == tables[fr.i + 1]
      table == h.tables[tix]
      info == md.font_infos[fr.font_index + 1]
      checksum_key == << table.tag, table.src_offset >>
      reused == checksum_key \in DOMAIN md.checksums
      transformed_table == Subspan(ubuf, table.src_offset, table.src_length)
      hmetrics == ReadNumHMetrics(transformed_table)
      md1 == IF table.tag = kHheaTableTag
             THEN [md EXCEPT !.font_infos[fr.font_index + 1].num_hmetrics =
                               hmetrics.num_hmetrics]
             ELSE md
      info1 == md1.font_infos[fr.font_index + 1]
      transformed == HasTransform(table)
      ubuf1 == IF ~reused /\ ~transformed /\ table.tag = kHeadTableTag
               THEN ClearCheckSumAdjustment(ubuf, table)
               ELSE ubuf
      copied == Subspan(ubuf1, table.src_offset, table.src_length)
      loca_tix == FindTable(h, tables, kLocaTableTag)
      glyf == ReconstructGlyfHeader(transformed_table, table.transform_length,
                                    h.tables[loca_tix].dst_length)
      hmtx == ReconstructTransformedHmtx(transformed_table, info1.num_glyphs,
                                         info1.num_hmetrics, info1.x_mins)
      sets_dst_offset ==
        ~reused /\ (~transformed \/ table.tag = kGlyfTableTag \/ table.tag = kHmtxTableTag)
      h1 == IF sets_dst_offset
            THEN [h EXCEPT !.tables[tix].dst_offset = fr.dest_offset]
            ELSE h
      md2 == IF ~reused /\ transformed /\ table.tag = kGlyfTableTag
             THEN [md1 EXCEPT !.font_infos[fr.font_index + 1].num_glyphs = glyf.num_glyphs,
                              !.font_infos[fr.font_index + 1].index_format = glyf.index_format]
             ELSE md1
      written == IF reused THEN << >>
                 ELSE IF ~transformed THEN copied
                 ELSE IF table.tag = kHmtxTableTag THEN hmtx.table
                 ELSE << >>
      checksum == IF reused THEN md.checksums[checksum_key]
                  ELSE IF ~transformed THEN ComputeULongSum(copied)
                  ELSE IF table.tag = kLocaTableTag THEN fr.loca_checksum
                  ELSE IF table.tag = kHmtxTableTag THEN hmtx.checksum
                  ELSE << 0, 0 >>
      md3 == IF reused THEN md2
             ELSE [md2 EXCEPT !.checksums = (checksum_key :> checksum) @@ md2.checksums]
      sink1 == SinkAppend(sink, written)
      table1 == h1.tables[tix]
      table_entry == StoreSum32(checksum) \o StoreU32(table1.dst_offset)
                     \o StoreU32(table1.dst_length)
      entry_offset == EntryOffset(info1, table.tag)
      md4 == [md3 EXCEPT !.font_infos[fr.font_index + 1].table_entry_by_tag =
                (table.tag :> entry_offset) @@ info1.table_entry_by_tag]
      sink2 == SinkOverwrite(sink1, entry_offset + 4, table_entry)
      sink3 == Pad4(sink2)
      fr1 == [fr EXCEPT
                !.font_checksum =
                   AddU32(AddU32(fr.font_checksum, checksum), ComputeULongSum(table_entry)),
                !.dest_offset = Len(sink3),
                !.i = fr.i + 1]
      rec == [font_index |-> fr.font_index, table |-> tix, tag |-> table.tag,
              src_offset |-> table.src_offset, reused |-> reused,
              checksum |-> checksum, dst_offset |-> table1.dst_offset,
              dst_length |-> table1.dst_length, entry_offset |-> entry_offset,
              wrote |-> ~reused /\ (~transformed \/ table.tag # kLocaTableTag),
              written |-> Len(written),
              size_before |-> Len(sink), size_after |-> Len(sink3)]
      NoGlyfCall == [called |-> FALSE, data |-> << >>, transform_length |-> 0,
                     loca_dst_length |-> 0, where |-> ""]
      Result(status, hh, mm, uu, ss, ff, log) ==
        [status |-> status, hdr |-> hh, metadata |-> mm, uncompressed_buf |-> uu,
         out |-> ss, frame |-> ff, log |-> log, patches |-> << >>,
         hmtx_calls |-> << >>, glyf_call |-> NoGlyfCall]
      \* the call of ReconstructTransformedHmtx at line 1019, when the
      \* table is one that takes this branch
      hmtx_calls ==
        IF ~reused /\ transformed /\ table.tag = kHmtxTableTag
        THEN << [font_index |-> fr.font_index, num_glyphs |-> info1.num_glyphs,
                 num_hmetrics |-> info1.num_hmetrics, x_mins |-> info1.x_mins,
                 ok |-> hmtx.ok] >>
        ELSE << >>
      \* the random-access Write of line 1038, as it is issued
      patch == [kind |-> "entry", font_index |-> fr.font_index, tag |-> table.tag,
                offset |-> entry_offset + 4, length |-> Len(table_entry),
                size |-> Len(sink1)]
      \* the call of ReconstructGlyf at line 1008
      Called(result) ==
        [result EXCEPT !.glyf_call =
           [called |-> TRUE, data |-> transformed_table,
            transform_length |-> table.transform_length,
            loca_dst_length |-> h.tables[loca_tix].dst_length, where |-> glyf.where]]
      Fail(hh, mm, uu, ss) == Result("fail", hh, mm, uu, ss, fr, << >>)
  IN
  IF fr.font_index = 0 /\ reused THEN Fail(h, md, ubuf, sink)
  ELSE IF table.src_offset + table.src_length > Len(ubuf) THEN Fail(h, md, ubuf, sink)
  ELSE IF table.tag = kHheaTableTag /\ ~hmetrics.ok THEN Fail(h, md, ubuf, sink)
  ELSE IF ~reused /\ ~transformed /\ table.tag = kHeadTableTag /\ table.src_length < 12
       THEN Fail(h, md1, ubuf, sink)
  ELSE IF ~reused /\ transformed /\ table.tag = kGlyfTableTag
       THEN IF glyf.ok
            THEN Called(Result("glyf", h1, md2, ubuf, sink, fr, << >>))
            ELSE Called(Fail(h1, md2, ubuf, sink))
  ELSE IF ~reused /\ transformed /\ table.tag = kHmtxTableTag /\ ~hmtx.ok
       THEN [Fail(h1, md1, ubuf, sink) EXCEPT !.hmtx_calls = hmtx_calls]
  ELSE IF ~reused /\ transformed
          /\ table.tag \notin {kGlyfTableTag, kLocaTableTag, kHmtxTableTag}
       THEN Fail(h, md1, ubuf, sink)   \* transform unknown
  ELSE [(IF ~SinkCanOverwrite(sink1, entry_offset + 4, 12)
          THEN Fail(h1, md4, ubuf1, sink1)
          ELSE IF table1.dst_offset + table1.dst_length > Len(sink3)
          THEN Fail(h1, md4, ubuf1, sink3)
          ELSE Result("ok", h1, md4, ubuf1, sink3, fr1, << rec >>))
        EXCEPT !.patches = << patch >>, !.hmtx_calls = hmtx_calls]

----------------------------------------------------------------------------
(* The inputs of Spec.                                                      *)

kMaxPlausibleCompressionRatio == 100

\* the unit in the last place of the float nearest to n (24-bit significand)
RECURSIVE FloatUlp(_, _)
FloatUlp(n, ulp) == IF n \div ulp < 16777216 THEN ulp ELSE FloatUlp(n, 2 * ulp)

\* (float) n for an unsigned integer: round to nearest, ties to even
ToFloat(n) ==
  LET ulp == FloatUlp(n, 1)
      m == n \div ulp
      r == n % ulp
  IN  (IF 2 * r > ulp \/ (2 * r = ulp /\ m % 2 = 1) THEN m + 1 ELSE m) * ulp

\* line 1372-1373: (float) uncompressed_size / length > 100.0, the division
\* in float.  The quotient rounds to a float above 100 exactly when the
\* real quotient is above 100 + 2^-18, half a unit in the last place of
\* 100 (the significand of 100 is even, so the tie rounds down to 100).
ImplausibleRatio(uncompressed_size, length) ==
  LET a == ToFloat(uncompressed_size)
      b == ToFloat(length)
  IN  a - kMaxPlausibleCompressionRatio * b > b \div 262144

HeadData == << 0, 1, 0, 0, 0, 0, 0, 1, 9, 9, 9, 9, 7 >>
NameData == << 110, 97, 109, 101, 33 >>
\* an hhea table: numberOfHMetrics = 1 at offset 34
HheaData == [k \in 1..36 |-> IF k = 36 THEN 1 ELSE 0]
\* hmtx transform: flags 1 (proportional lsbs omitted), advanceWidth[0] = 600
HmtxData == << 1, 2, 88 >>
\* a well-formed transformed glyf table of one empty glyph, short loca:
\* reserved, option_flags, num_glyphs = 1, index_format = 0, the seven
\* sub-stream lengths (nContour 2, bbox 4, the others 0), then the streams
GlyfData ==
  << 0, 0,  0, 0,  0, 1,  0, 0 >>
  \o << 0, 0, 0, 2 >> \o Zeroes(4) \o Zeroes(4) \o Zeroes(4) \o Zeroes(4)
  \o << 0, 0, 0, 4 >> \o Zeroes(4)
  \o << 0, 0 >> \o << 0, 0, 0, 0 >>

HeadEntry == Entry(kHeadTableTag, 0, 13, HeadData)
NameEntry == Entry(kNameTableTag, 0, 5, NameData)
EmptyNameEntry == Entry(kNameTableTag, 0, 0, << >>)
HheaEntry == Entry(kHheaTableTag, 0, 36, HheaData)
GlyfEntry == Entry(kGlyfTableTag, 0, 0, GlyfData)
LocaEntry == Entry(kLocaTableTag, 0, 4, << >>)
RawLocaEntry == Entry(kLocaTableTag, 3, 2, << 0, 0 >>)
RawGlyfEntry == Entry(kGlyfTableTag, 3, 6, << 1, 2, 3, 4, 5, 6 >>)
HmtxEntry == Entry(kHmtxTableTag, 1, 4, HmtxData)
TransformedNameEntry == Entry(kNameTableTag, 1, 5, NameData)

TableChoices ==
  { HeadEntry, NameEntry, EmptyNameEntry, HheaEntry, GlyfEntry, LocaEntry,
    RawLocaEntry, RawGlyfEntry, HmtxEntry, TransformedNameEntry }
TtcTableChoices == { HeadEntry, NameEntry, EmptyNameEntry }

\* the sequences over S of length 1..n
SeqsUpTo(S, n) == UNION { [1..k -> S] : k \in 1..n }

\* the collection directories whose fonts list at most `budget` indices in all
RECURSIVE FontSeqs(_, _)
FontSeqs(alphabet, budget) ==
  { << >> } \cup
  UNION { { << [flavor |-> 65536, table_indices |-> l] >> \o rest :
              rest \in FontSeqs(alphabet, budget - Len(l)) } :
          l \in SeqsUpTo(alphabet, budget) }

\* a file whose length fields agree with its content
MakeInput(flavor, header_version, directory, fonts) ==
  LET compressed_offset ==
        48 + DirectoryBytes(directory)
        + (IF flavor = kTtcFontFlavor THEN CollectionBytes(fonts) ELSE 0)
      length == Round4(compressed_offset + CompressedLength)
  IN  [signature |-> kWoff2Signature, flavor |-> flavor,
       reported_length |-> length, length |-> length,
       num_tables |-> Len(directory), compressed_length |-> CompressedLength,
       meta_offset |-> 0, meta_length |-> 0, priv_offset |-> 0, priv_length |-> 0,
       directory |-> directory, header_version |-> header_version, fonts |-> fonts,
       brotli |-> [ok |-> TRUE, bytes |-> Payload(directory)]]

SingleInputs ==
  { MakeInput(65536, 0, d, << >>) : d \in SeqsUpTo(TableChoices, MaxTables) }

\* collections of version 1.0 over every directory, of version 2.0 (the
\* header with the three DSIG words) over the directories of one table
TtcInputs ==
  UNION { { MakeInput(kTtcFontFlavor, v, d, f) :
              v \in (IF Len(d) = 1 THEN {65536, 131072} ELSE {65536}),
              f \in FontSeqs(0..(Len(d) - 1), MaxTtcIndices) } :
          d \in SeqsUpTo(TtcTableChoices, MaxTtcTables) }

\* files whose header fields disagree with the file
HostileBase == MakeInput(65536, 0, << HeadEntry, NameEntry >>, << >>)
HostileInputs ==
  { [HostileBase EXCEPT !.signature = sg, !.length = len,
                        !.reported_length = len + rl, !.num_tables = nt,
                        !.compressed_length = cl,
                        !.meta_offset = meta[1], !.meta_length = meta[2],
                        !.priv_offset = priv[1], !.priv_length = priv[2]] :
      sg \in {kWoff2Signature, 0},
      len \in {HostileBase.length, HostileBase.length + 4, 40},
      rl \in {0, 1},
      nt \in {0, 2},
      cl \in {CompressedLength, CompressedLength + 3, CompressedLength + 4, 1000000},
      meta \in { << 0, 0 >>, << HostileBase.length, 3 >>,
                 << HostileBase.length + 100, 3 >> },
      priv \in { << 0, 0 >>, << HostileBase.length, 4 >>,
                 << HostileBase.length - 4, 4 >> } }

\* collections with indices out of range, a bad version
HostileTtcInputs ==
  { MakeInput(kTtcFontFlavor, v, << HeadEntry, NameEntry >>, f) :
      v \in {65536, 196608}, f \in FontSeqs(0..2, MaxTtcIndices) }

\* collections whose second font lists the glyf and loca of the first, and
\* a transformed hmtx with them in one of the two
ReusedGlyfInputs ==
  { MakeInput(kTtcFontFlavor, 65536, << RawGlyfEntry, RawLocaEntry, HmtxEntry >>,
              << [flavor |-> 65536, table_indices |-> f[1]],
                 [flavor |-> 65536, table_indices |-> f[2]] >>) :
      f \in { << << 0, 1 >>, << 0, 1, 2 >> >>, << << 0, 1, 2 >>, << 0, 1 >> >>,
              << << 2 >>, << 0, 1 >> >> } }

\* the Brotli decoder fails, or yields less than uncompressed_size
BrotliInputs ==
  { [HostileBase EXCEPT !.brotli = b] :
      b \in { [ok |-> FALSE, bytes |-> << >>],
              [ok |-> TRUE, bytes |-> SubSeq(HeadData, 1, 12)] } }

\* a file of `length` bytes whose one table claims `size` bytes uncompressed
BombInput(length, size) ==
  LET e == [tag |-> kNameTableTag, xform_version |-> 0, dst_length |-> size,
            transform_length |-> 0, data |-> << >>]
      in == MakeInput(65536, 0, << e >>, << >>)
  IN  [in EXCEPT !.length = length, !.reported_length = length,
                 !.compressed_length = length - (48 + DirectoryBytes(<< e >>))]

\* directories that claim 100 times the input length or more, for a short
\* file and for one of 2^24 bytes
BombInputs ==
  { BombInput(length, kMaxPlausibleCompressionRatio * length + k) :
      length \in {64, 16777216}, k \in {0, 1, 64, 65} }
  \cup { BombInput(64, 2 * kMaxPlausibleCompressionRatio * 64) }

Inputs == SingleInputs \cup TtcInputs \cup HostileInputs \cup HostileTtcInputs
          \cup ReusedGlyfInputs \cup BrotliInputs \cup BombInputs

----------------------------------------------------------------------------
(* Spec: ConvertWOFF2ToTTF.                                                 *)

InitMetadata == [header_checksum |-> << 0, 0 >>, font_infos |-> << >>,
                 checksums |-> << >>]
NoFrame == [font_index |-> 0, i |-> 0, dest_offset |-> 0,
            font_checksum |-> << 0, 0 >>, loca_checksum |-> << 0, 0 >>]
InitHist == [log |-> << >>, patches |-> << >>, hmtx_calls |-> << >>,
             store_calls |-> << >>,
             triplet_calls |-> << >>, allocated |-> 0, brotli_calls |-> 0,
             glyf_call |-> [called |-> FALSE, data |-> << >>, transform_length |-> 0,
                            loca_dst_length |-> 0, where |-> ""]]

Init ==
  /\ input \in Inputs
  /\ pc = "ReadWOFF2Header"
  /\ hdr = InitHdr
  /\ metadata = InitMetadata
  /\ uncompressed_buf = << >>
  /\ out = << >>
  /\ frame = NoFrame
  /\ hist = InitHist

\* ReadWOFF2Header.  The subspan of line 1219 is taken before the bounds
\* check of line 1223: when it ends beyond the input its precondition is
\* violated, and the build either traps there or goes on with the span.
ReadHeaderStep ==
  /\ pc = "ReadWOFF2Header"
  /\ LET r == ReadWOFF2HeaderToSpan(input)
         after == IF ReadWOFF2HeaderTail(input, r.offset)
                  THEN "WriteHeaders" ELSE "failed"
     IN  /\ hdr' = r.hdr
         /\ IF r.status = "fail" THEN pc' = "failed"
            ELSE IF r.offset + input.compressed_length <= input.length
            THEN pc' = after
            ELSE pc' \in {"trap", after}
  /\ UNCHANGED << input, metadata, uncompressed_buf, out, frame, hist >>

WriteHeadersStep ==
  /\ pc = "WriteHeaders"
  /\ LET w == WriteHeaders(hdr)
     IN  /\ hdr' = [hdr EXCEPT !.ttc_fonts = w.ttc_fonts]
         /\ metadata' = [metadata EXCEPT !.header_checksum = w.header_checksum,
                                         !.font_infos = w.font_infos]
         /\ out' = SinkAppend(out, w.output)
  /\ pc' = "Uncompress"
  /\ UNCHANGED << input, uncompressed_buf, frame, hist >>

\* ConvertWOFF2ToTTF, lines 1372-1388: the ratio guard, the scratch buffer,
\* the Brotli decoder
UncompressStep ==
  /\ pc = "Uncompress"
  /\ IF ImplausibleRatio(hdr.uncompressed_size, input.length)
     THEN /\ pc' = "failed"
          /\ UNCHANGED << uncompressed_buf, hist >>
     ELSE IF hdr.uncompressed_size < 1
     THEN /\ pc' = "failed"
          /\ hist' = [hist EXCEPT !.allocated = 1]
          /\ UNCHANGED uncompressed_buf
     ELSE /\ hist' = [hist EXCEPT !.allocated = 1, !.brotli_calls = @ + 1]
          /\ IF input.brotli.ok /\ Len(input.brotli.bytes) = hdr.uncompressed_size
             THEN /\ uncompressed_buf' = input.brotli.bytes
                  /\ pc' = "ReconstructFont"
             ELSE /\ pc' = "failed"
                  /\ UNCHANGED uncompressed_buf
  /\ UNCHANGED << input, hdr, metadata, out, frame >>

\* ReconstructFont, lines 927-958
ReconstructFontEnter ==
  /\ pc = "ReconstructFont"
  /\ LET tables == Tables(hdr, frame.font_index)
         glyf_table == FindTable(hdr, tables, kGlyfTableTag)
         loca_table == FindTable(hdr, tables, kLocaTableTag)
     IN  IF (glyf_table # 0) # (loca_table # 0)
         THEN pc' = "failed" /\ UNCHANGED frame
         ELSE IF glyf_table # 0
                 /\ HasTransform(hdr.tables[glyf_table]) # HasTransform(hdr.tables[loca_table])
         THEN pc' = "failed" /\ UNCHANGED frame
         ELSE /\ pc' = "Table"
              /\ frame' = [font_index |-> frame.font_index, i |-> 0,
                           dest_offset |-> Len(out),
                           font_checksum |->
                             IF hdr.header_version # 0
                             THEN hdr.ttc_fonts[frame.font_index + 1].header_checksum
                             ELSE metadata.header_checksum,
                           loca_checksum |-> << 0, 0 >>]
  /\ UNCHANGED << input, hdr, metadata, uncompressed_buf, out, hist >>

\* the calls of ReconstructTransformedHmtx of one pass, each with the
\* number of tables logged before it
CallsAfter(calls, before) ==
  [k \in DOMAIN calls |->
     [font_index |-> calls[k].font_index, num_glyphs |-> calls[k].num_glyphs,
      num_hmetrics |-> calls[k].num_hmetrics, x_mins |-> calls[k].x_mins,
      ok |-> calls[k].ok, before |-> before]]

\* ReconstructFont, one pass of the loop of lines 959-1055
ReconstructFontTableStep ==
  /\ pc = "Table"
  /\ frame.i < Len(Tables(hdr, frame.font_index))
  /\ LET r == ReconstructFontTable(hdr, metadata, uncompressed_buf, out, frame)
     IN  /\ pc' = IF r.status = "ok" THEN "Table"
                  ELSE IF r.status = "glyf" THEN "glyf_loop" ELSE "failed"
         /\ hdr' = r.hdr
         /\ metadata' = r.metadata
         /\ uncompressed_buf' = r.uncompressed_buf
         /\ out' = r.out
         /\ frame' = r.frame
         /\ hist' = [hist EXCEPT !.log = @ \o r.log,
                                  !.patches = @ \o r.patches,
                                  !.hmtx_calls =
                                    @ \o CallsAfter(r.hmtx_calls, Len(hist.log)),
                                  !.glyf_call = IF r.glyf_call.called
                                                THEN r.glyf_call ELSE @]
  /\ UNCHANGED input

\* ReconstructFont, lines 1057-1072, and the loop over the fonts of
\* ConvertWOFF2ToTTF
ReconstructFontExit ==
  /\ pc = "Table"
  /\ frame.i = Len(Tables(hdr, frame.font_index))
  /\ LET tables == Tables(hdr, frame.font_index)
         head_table == FindTable(hdr, tables, kHeadTableTag)
         at == hdr.tables[head_table].dst_offset + kCheckSumAdjustmentOffset
         checksum_adjustment == StoreSum32(SubU32(kCheckSumMagic, frame.font_checksum))
         next == IF frame.font_index + 1 < Len(metadata.font_infos)
                 THEN "ReconstructFont" ELSE "done"
         \* the random-access Write of line 1064, as it is issued
         patched == [hist EXCEPT !.patches =
                       Append(@, [kind |-> "head", font_index |-> frame.font_index,
                                  tag |-> kHeadTableTag, offset |-> at,
                                  length |-> Len(checksum_adjustment),
                                  size |-> Len(out)])]
     IN  IF head_table = 0
         THEN pc' = next /\ UNCHANGED << out, hist >>
         ELSE IF hdr.tables[head_table].dst_length < 12
         THEN pc' = "failed" /\ UNCHANGED << out, hist >>
         ELSE IF ~SinkCanOverwrite(out, at, 4)
         THEN pc' = "failed" /\ hist' = patched /\ UNCHANGED out
         ELSE /\ pc' = next
              /\ hist' = patched
              /\ out' = SinkOverwrite(out, at, checksum_adjustment)
  /\ frame' = [frame EXCEPT !.font_index = @ + 1]
  /\ UNCHANGED << input, hdr, metadata, uncompressed_buf >>

Next ==
  \/ ReadHeaderStep
  \/ WriteHeadersStep
  \/ UncompressStep
  \/ ReconstructFontEnter
  \/ ReconstructFontTableStep
  \/ ReconstructFontExit

Spec == Init /\ [][Next]_vars

----------------------------------------------------------------------------
(* Properties of ConvertWOFF2ToTTF, checked under Spec.                     *)

NumFonts(h) == IF h.header_version # 0 THEN Len(h.ttc_fonts) ELSE 1

\* where in the output the directory entries of font k (from 0) are
FontEntryOffsets(h, k) ==
  LET base == IF h.header_version # 0 THEN h.ttc_fonts[k + 1].dst_offset ELSE 0
      n == IF h.header_version # 0 THEN Len(h.ttc_fonts[k + 1].table_indices)
           ELSE h.num_tables
  IN  [j \in 1..n |-> base + kSfntHeaderSize + kSfntEntrySize * (j - 1)]

AllEntryOffsets(h) ==
  UNION { Range(FontEntryOffsets(h, k)) : k \in 0..(NumFonts(h) - 1) }

HasHead(h) == \E k \in DOMAIN h.tables : h.tables[k].tag = kHeadTableTag

\* the checksum field of an output word, as 16-bit halves
ChecksumAt(buf, offset) == WordAt(buf, offset)

\* the steps of ReconstructFont that emitted a table
Emissions == { k \in DOMAIN hist.log : ~hist.log[k].reused }
\* the steps of a later font that reused an emission
Reuses == { k \in DOMAIN hist.log : hist.log[k].reused }

(* C1: after a successful decode of a single (non-collection) font whose   *)
(* directory has a head table, the ULongSum of the whole output is         *)
(* 0xB1B0AFBA.                                                              *)
C1_FontChecksumIsMagic ==
  (pc = "done" /\ hdr.header_version = 0 /\ HasHead(hdr))
    => ComputeULongSum(out) = kCheckSumMagic

\* a table's bytes with a head table's checkSumAdjustment taken as zero
AdjustmentAsZero(tag, bytes) ==
  IF tag = kHeadTableTag /\ Len(bytes) >= 12
  THEN SinkOverwrite(bytes, kCheckSumAdjustmentOffset, Zeroes(4))
  ELSE bytes

LastPatch(e) ==
  LET ks == { k \in DOMAIN hist.log : hist.log[k].entry_offset = e }
  IN  IF ks = {} THEN 0 ELSE CHOOSE k \in ks : \A j \in ks : j <= k

\* the step that emitted the table a step's (tag, src_offset) names
EmissionOf(k) ==
  CHOOSE j \in Emissions :
    /\ hist.log[j].tag = hist.log[k].tag
    /\ hist.log[j].src_offset = hist.log[k].src_offset

EmittedTables == { hist.log[k].table : k \in { j \in Emissions : hist.log[j].wrote } }

(* C3: after a successful decode, the sink size is the header size          *)
(* (ComputeOffsetToFirstTable) plus the sum, over every distinct emitted    *)
(* table, of its dst_length rounded up to a multiple of 4.                  *)
C3_SinkSizeIsHeaderPlusPaddedTables ==
  pc = "done" =>
    Len(out) = ComputeOffsetToFirstTable(hdr)
               + SumOver([k \in DOMAIN hdr.tables |->
                            IF k \in EmittedTables
                            THEN Round4(hdr.tables[k].dst_length) ELSE 0],
                         Len(hdr.tables))

\* a collection decoded: a table of unaligned length emitted, a table reused
C3_Witness ==
  /\ pc = "done"
  /\ Reuses # {}
  /\ \E k \in EmittedTables : hdr.tables[k].dst_length % 4 # 0
  /\ Cardinality(EmittedTables) >= 2

\* a transformed glyf region as the format lays it out: the 36-byte header,
\* the seven sub-streams and the optional overlap bitmap inside the region,
\* the bbox bitmap inside the bbox stream, loca's origLength as the header's
\* num_glyphs and index_format give it
WellFormedGlyfRegion(region, loca_dst_length) ==
  /\ Len(region) >= 36
  /\ LET option_flags == U16At(region, 2)
         num_glyphs == U16At(region, 4)
         index_format == U16At(region, 6)
         stream_lengths == [k \in 1..7 |-> U32At(region, 4 + 4 * k)]
         bitmap == IF option_flags % 2 = 1 THEN (num_glyphs + 7) \div 8 ELSE 0
     IN  /\ \A k \in 1..7 : stream_lengths[k] <= Len(region)
         /\ 36 + SumOver(stream_lengths, 7) + bitmap <= Len(region)
         /\ stream_lengths[6] >= 4 * ((num_glyphs + 31) \div 32)
         /\ loca_dst_length = (IF index_format # 0 THEN 4 ELSE 2) * (num_glyphs + 1)

(* C4: called by ReconstructFont with the transformed glyf region,          *)
(* ReconstructGlyf reads its header from bytes 0..36 of the region: on a    *)
(* well-formed region it does not fail on the header read.                  *)
C4_GlyfHeaderReadFromRegion ==
  ( /\ hist.glyf_call.called
    /\ hist.glyf_call.transform_length = Len(hist.glyf_call.data)
    /\ WellFormedGlyfRegion(hist.glyf_call.data, hist.glyf_call.loca_dst_length) )
    => hist.glyf_call.where = "loop"

(* C6: in ReadWOFF2Header no slice of the input is taken whose end lies     *)
(* beyond the input: compressed_buf is formed only when compressed_offset   *)
(* + compressed_length <= input length.                                     *)
C6_CompressedBufWithinInput ==
  hdr.compressed_buf.offset + hdr.compressed_buf.size <= input.length

(* C8: for a single font, the tables are appended to the sink in ascending  *)
(* tag order: tag(A) < tag(B) implies dst_offset(A) < dst_offset(B),        *)
(* whatever the order of the WOFF2 table directory.                         *)
C8_TablesEmittedInTagOrder ==
  (pc = "done" /\ hdr.header_version = 0) =>
    \A a, b \in DOMAIN hdr.tables :
      hdr.tables[a].tag < hdr.tables[b].tag
        => hdr.tables[a].dst_offset < hdr.tables[b].dst_offset

(* C9: in the header written by WriteHeaders, the 16-byte entries of each   *)
(* font's table directory are in ascending tag order.                       *)
C9_DirectoryEntriesSortedByTag ==
  pc \in {"Uncompress", "ReconstructFont", "Table", "done"} =>
    \A k \in 0..(NumFonts(hdr) - 1) :
      LET offsets == FontEntryOffsets(hdr, k)
      IN  \A j \in 1..(Len(offsets) - 1) :
            U32At(out, offsets[j]) <= U32At(out, offsets[j + 1])

(* C10: when a font of index >= 1 processes a table whose (tag, src_offset) *)
(* an earlier font emitted, nothing is appended to the sink, and the        *)
(* (checksum, offset, length) patched into its entry are those patched at   *)
(* the first emission.                                                      *)
C10_ReuseRepeatsFirstEmission ==
  \A k \in Reuses :
    LET r == hist.log[k]
        first == hist.log[EmissionOf(k)]
    IN  r.font_index >= 1 =>
          /\ r.size_after = r.size_before
          /\ r.checksum = first.checksum
          /\ r.dst_offset = first.dst_offset
          /\ r.dst_length = first.dst_length

----------------------------------------------------------------------------
(* SpecHmtx: ReconstructTransformedHmtx, called on its own.                 *)

\* the bytes after the flags byte are a prefix of this stream
HmtxBody == << 2, 88, 255, 254, 0, 9, 1, 1, 0, 3, 255, 255, 0, 1 >>
HmtxFlags == { 0, 1, 2, 3, 4, 7 }
XMinChoices == { -3, 7 }

\* x_mins has num_glyphs elements (the assertion of line 731)
HmtxInputs ==
  UNION {
    { [transformed_buf |-> buf, num_glyphs |-> num_glyphs,
       num_hmetrics |-> num_hmetrics, x_mins |-> x_mins] :
        num_hmetrics \in 0..(MaxHmtxGlyphs + 1),
        x_mins \in [1..num_glyphs -> XMinChoices],
        buf \in { << >> } \cup
                { << f >> \o SubSeq(HmtxBody, 1, n) :
                    f \in HmtxFlags, n \in 0..(4 * MaxHmtxGlyphs) } } :
    num_glyphs \in 0..MaxHmtxGlyphs }

InitHmtx ==
  /\ input \in HmtxInputs
  /\ pc = "ReconstructTransformedHmtx"
  /\ hdr = InitHdr
  /\ metadata = InitMetadata
  /\ uncompressed_buf = << >>
  /\ out = << >>
  /\ frame = NoFrame
  /\ hist = InitHist

ReconstructTransformedHmtxStep ==
  /\ pc = "ReconstructTransformedHmtx"
  /\ LET r == ReconstructTransformedHmtx(input.transformed_buf, input.num_glyphs,
                                         input.num_hmetrics, input.x_mins)
     IN  /\ pc' = IF r.ok THEN "done" ELSE "failed"
         /\ out' = SinkAppend(out, r.table)
         /\ frame' = [frame EXCEPT !.font_checksum = r.checksum]
  /\ UNCHANGED << input, hdr, metadata, uncompressed_buf, hist >>

NextHmtx == ReconstructTransformedHmtxStep

SpecHmtx == InitHmtx /\ [][NextHmtx]_vars

(* C11: when the directory's uncompressed_size exceeds 100 times the input *)
(* length, ConvertWOFF2ToTTF fails without allocating the scratch buffer    *)
(* and without invoking the Brotli decoder.                                 *)
C11_BombRejectedBeforeAllocation ==
  ( /\ pc \notin {"ReadWOFF2Header", "trap"}
    /\ hdr.uncompressed_size > kMaxPlausibleCompressionRatio * input.length )
    => /\ hist.allocated = 0
       /\ hist.brotli_calls = 0
       /\ pc \in {"WriteHeaders", "Uncompress", "failed"}

(* C16: ConvertWOFF2ToTTF returns failure, with nothing written to the     *)
(* sink, whenever the first four bytes are not 0x774F4632, or the length    *)
(* field at offset 8 differs from the input's length, or num_tables is 0.   *)
C16_BadHeaderFailsBeforeWriting ==
  ( \/ input.signature # kWoff2Signature
    \/ input.reported_length # input.length
    \/ input.num_tables = 0 )
    => /\ out = << >>
       /\ pc \in {"ReadWOFF2Header", "failed"}

\* a file rejected for its length field alone
C16_Witness ==
  /\ pc = "failed"
  /\ out = << >>
  /\ input = [HostileBase EXCEPT !.reported_length = HostileBase.length + 1]

\* the call has returned and had a flags byte to read
HmtxReturnedOn(flag_bits) ==
  /\ pc \in {"done", "failed"}
  /\ Len(input.transformed_buf) >= 1
  /\ input.transformed_buf[1] % 4 = flag_bits

\* nothing but the flags stands in the way of success
HmtxOtherwiseValid ==
  /\ input.num_hmetrics >= 1
  /\ input.num_hmetrics <= input.num_glyphs
  /\ Len(input.transformed_buf) >= 1 + 4 * input.num_hmetrics
                                     + 2 * (input.num_glyphs - input.num_hmetrics)

(* C7, as stated: ReconstructTransformedHmtx fails whenever the flags byte  *)
(* has bits 0 and 1 both set, (flags & 3) = 3.                              *)
C7_FailsWhenBothBitsSet ==
  HmtxReturnedOn(3) => pc = "failed"

(* C7, amended: ReconstructTransformedHmtx fails whenever the flags byte    *)
(* has bits 0 and 1 both clear, (flags & 3) = 0: no lsb array omitted.      *)
(* With both bits set and bits 2..7 zero the flags are accepted.            *)
C7_FailsWhenBothBitsClear ==
  /\ HmtxReturnedOn(0) => pc = "failed"
  /\ (HmtxReturnedOn(3) /\ input.transformed_buf[1] = 3 /\ HmtxOtherwiseValid)
       => pc = "done"

\* a call that only the flags byte 0 made fail
C7_Witness ==
  /\ HmtxReturnedOn(0)
  /\ input.transformed_buf[1] = 0
  /\ HmtxOtherwiseValid
  /\ pc = "failed"

\* the lsb the hmtx format gives glyph i (from 0): x_mins[i] when the bit of
\* its block is set, else the next i16 of the stream, the proportional
\* block first
ExpectedLsb(i) ==
  LET flags == input.transformed_buf[1]
      nh == input.num_hmetrics
      omitted == IF i < nh THEN flags % 2 = 1 ELSE (flags \div 2) % 2 = 1
      read == IF i < nh THEN 1 + 2 * nh + 2 * i
              ELSE 1 + 2 * nh + (IF flags % 2 = 1 THEN 0 ELSE 2 * nh) + 2 * (i - nh)
      u == 256 * input.transformed_buf[read + 1] + input.transformed_buf[read + 2]
  IN  IF omitted THEN input.x_mins[i + 1]
      ELSE IF u >= 32768 THEN u - 65536 ELSE u

\* the big-endian i16 at offset pos (from 0) of the sink
SinkS16(pos) ==
  LET u == 256 * out[pos + 1] + out[pos + 2]
  IN  IF u >= 32768 THEN u - 65536 ELSE u

(* C15: on success ReconstructTransformedHmtx appends exactly               *)
(* 4*num_hmetrics + 2*(num_glyphs - num_hmetrics) bytes: the pair           *)
(* (advanceWidth[i], lsb[i]) for each i < num_hmetrics, then lsb[i] for the *)
(* remaining glyphs, where lsb[i] is x_mins[i] in a block whose omission    *)
(* bit is set (bit 0 for i < num_hmetrics, bit 1 otherwise) and otherwise   *)
(* the i16 read from the input.                                             *)
C15_HmtxTableLayout ==
  pc = "done" =>
    LET nh == input.num_hmetrics
        ng == input.num_glyphs
    IN  /\ Len(out) = 4 * nh + 2 * (ng - nh)
        /\ \A b \in DOMAIN out : out[b] \in 0..255
        /\ \A i \in 0..(nh - 1) :
             /\ out[4 * i + 1] = input.transformed_buf[2 + 2 * i]
             /\ out[4 * i + 2] = input.transformed_buf[3 + 2 * i]
             /\ SinkS16(4 * i + 2) = ExpectedLsb(i)
        /\ \A i \in nh..(ng - 1) :
             SinkS16(4 * nh + 2 * (i - nh)) = ExpectedLsb(i)

\* a success with the proportional lsbs omitted and a monospace lsb read
C15_Witness ==
  /\ pc = "done"
  /\ input.transformed_buf[1] = 1
  /\ input.num_glyphs = 2 /\ input.num_hmetrics = 1
  /\ input.x_mins = << -3, 7 >>
  /\ out = << 2, 88, 255, 253, 255, 254 >>

----------------------------------------------------------------------------
(* The glyph transform: the functions ReconstructGlyf calls per glyph.      *)

kGlyfOnCurve == 1
kGlyfXShort == 2
kGlyfYShort == 4
kGlyfRepeat == 8
kGlyfThisXIsSame == 16
kGlyfThisYIsSame == 32
kOverlapSimple == 64
kEndPtsOfContoursOffset == 10

\* bit `bit` (a power of two) of v is set
HasBit(v, bit) == (v \div bit) % 2 = 1

\* 255UInt16: [ok, value, offset] of a read at `offset` of `buf`
Read255UShort(buf, offset) ==
  LET Fail == [ok |-> FALSE, value |-> 0, offset |-> offset]
      code == buf[offset + 1]
  IN  IF offset + 1 > Len(buf) THEN Fail
      ELSE IF code = 253
           THEN IF offset + 3 > Len(buf) THEN Fail
                ELSE [ok |-> TRUE, value |-> U16At(buf, offset + 1), offset |-> offset + 3]
      ELSE IF code = 254
           THEN IF offset + 2 > Len(buf) THEN Fail
                ELSE [ok |-> TRUE, value |-> buf[offset + 2] + 253, offset |-> offset + 2]
      ELSE IF code = 255
           THEN IF offset + 2 > Len(buf) THEN Fail
                ELSE [ok |-> TRUE, value |-> buf[offset + 2] + 506, offset |-> offset + 2]
      ELSE [ok |-> TRUE, value |-> code, offset |-> offset + 1]

WithSign(flag, baseval) == IF flag % 2 = 1 THEN baseval ELSE -baseval

\* lines 139-148 as if flags from 20 on took two data bytes
NDataBytesTwoFromTwenty(flag) ==
  IF flag < 20 THEN 1 ELSE IF flag < 120 THEN 2 ELSE IF flag < 124 THEN 3 ELSE 4

\* lines 139-148: the data bytes of a triplet, by the low 7 bits of its flag
NDataBytes(flag) ==
  IF flag < 84 THEN 1 ELSE IF flag < 120 THEN 2 ELSE IF flag < 124 THEN 3 ELSE 4

\* lines 153-178: << dx, dy >> of the triplet at triplet_index
TripletDelta(flag, in, triplet_index) ==
  LET b(k) == in[triplet_index + k + 1]
  IN  IF flag < 10
      THEN << 0, WithSign(flag, ((flag \div 2) % 8) * 256 + b(0)) >>
      ELSE IF flag < 20
      THEN << WithSign(flag, (((flag - 10) \div 2) % 8) * 256 + b(0)), 0 >>
      ELSE IF flag < 84
      THEN LET b0 == flag - 20
               b1 == b(0)
           IN  << WithSign(flag, 1 + ((b0 \div 16) % 4) * 16 + (b1 \div 16)),
                  WithSign(flag \div 2, 1 + ((b0 \div 4) % 4) * 16 + (b1 % 16)) >>
      ELSE IF flag < 120
      THEN LET b0 == flag - 84
           IN  << WithSign(flag, 1 + (b0 \div 12) * 256 + b(0)),
                  WithSign(flag \div 2, 1 + ((b0 % 12) \div 4) * 256 + b(1)) >>
      ELSE IF flag < 124
      THEN LET b2 == b(1)
           IN  << WithSign(flag, b(0) * 16 + (b2 \div 16)),
                  WithSign(flag \div 2, (b2 % 16) * 256 + b(2)) >>
      ELSE << WithSign(flag, b(0) * 256 + b(1)),
              WithSign(flag \div 2, b(2) * 256 + b(3)) >>

\* line 137 as if the high bit were taken as it is
OnCurveNotInverted(byte) == byte >= 128

\* line 137: bool on_curve = !(flag >> 7)
OnCurve(byte) == byte < 128

\* one turn of the loop of lines 135-187 (a failed run stays failed);
\* st = [ok, i, triplet_index, x, y, points, oob_read].
\* flags_in[i] is read unchecked: beyond the span the read yields `oob`
TripletDecodeBody(flags_in, in, oob, st) ==
  IF ~st.ok THEN st
  ELSE
    LET beyond == st.i >= Len(flags_in)
        byte == IF beyond THEN oob ELSE flags_in[st.i + 1]
        on_curve == OnCurve(byte)
        flag == byte % 128
        n_data_bytes == NDataBytes(flag)
        d == TripletDelta(flag, in, st.triplet_index)
    IN  IF st.triplet_index + n_data_bytes > Len(in)
        THEN [st EXCEPT !.ok = FALSE, !.oob_read = @ \/ beyond]
        ELSE [ok |-> TRUE, i |-> st.i + 1,
              triplet_index |-> st.triplet_index + n_data_bytes,
              x |-> st.x + d[1], y |-> st.y + d[2],
              points |-> Append(st.points,
                           [x |-> st.x + d[1], y |-> st.y + d[2], on_curve |-> on_curve]),
              oob_read |-> st.oob_read \/ beyond]

\* `turns` turns of the loop from st on, the first half and then the rest;
\* the loop is left at the first failure (line 151)
RECURSIVE TripletDecodeTurns(_, _, _, _, _)

\* the turns after the first half, none once the loop was left (line 151)
TripletDecodeRest(flags_in, in, oob, half, turns) ==
  IF ~half.ok THEN half
  ELSE TripletDecodeTurns(flags_in, in, oob, half, turns)

TripletDecodeTurns(flags_in, in, oob, st, turns) ==
  IF turns <= 0 THEN st
  ELSE IF turns = 1 THEN TripletDecodeBody(flags_in, in, oob, st)
  ELSE TripletDecodeRest(flags_in, in, oob,
         TripletDecodeTurns(flags_in, in, oob, st, turns \div 2),
         turns - turns \div 2)

\* lines 186-189: what the function returns after the loop
TripletDecodeResult(r) ==
  [ok |-> r.ok, points |-> r.points,
   in_bytes_consumed |-> IF r.ok THEN r.triplet_index ELSE 0,
   oob_read |-> r.oob_read]

\* the loop of lines 135-187 from st = [i, triplet_index, x, y, points,
\* oob_read] on, and what the function returns after it
TripletDecodeFrom(flags_in, in, n_results, oob, st) ==
  TripletDecodeResult(
    TripletDecodeTurns(flags_in, in, oob,
      [ok |-> TRUE, i |-> st.i, triplet_index |-> st.triplet_index,
       x |-> st.x, y |-> st.y, points |-> st.points,
       oob_read |-> st.oob_read],
      n_results - st.i))

\* TripletDecode, with n_results = results.size().  The sums of lines
\* 180-185 stay far inside int for the point counts of this model.
TripletDecode(flags_in, in, n_results, oob) ==
  IF n_results > Len(in)
  THEN [ok |-> FALSE, points |-> << >>, in_bytes_consumed |-> 0, oob_read |-> FALSE]
  ELSE TripletDecodeFrom(flags_in, in, n_results, oob,
         [i |-> 0, triplet_index |-> 0, x |-> 0, y |-> 0, points |-> << >>,
          oob_read |-> FALSE])

\* lines 210-232: the flag StorePoints computes for point i (from 1)
PointFlag(points, i, has_overlap_bit) ==
  LET dx == points[i].x - (IF i = 1 THEN 0 ELSE points[i - 1].x)
      dy == points[i].y - (IF i = 1 THEN 0 ELSE points[i - 1].y)
  IN  (IF points[i].on_curve THEN kGlyfOnCurve ELSE 0)
      + (IF has_overlap_bit /\ i = 1 THEN kOverlapSimple ELSE 0)
      + (IF dx = 0 THEN kGlyfThisXIsSame
         ELSE IF dx > -256 /\ dx < 256
              THEN kGlyfXShort + (IF dx > 0 THEN kGlyfThisXIsSame ELSE 0)
              ELSE 0)
      + (IF dy = 0 THEN kGlyfThisYIsSame
         ELSE IF dy > -256 /\ dy < 256
              THEN kGlyfYShort + (IF dy > 0 THEN kGlyfThisYIsSame ELSE 0)
              ELSE 0)

\* lines 273-291 as if a wide delta took three bytes
DeltaBytesThreeWide(d) ==
  IF d = 0 THEN << >>
  ELSE IF d > -256 /\ d < 256 THEN << IF d < 0 THEN -d ELSE d >>
  ELSE << 0 >> \o Store16(d)

\* lines 273-291: the bytes a coordinate delta is stored in
DeltaBytes(d) ==
  IF d = 0 THEN << >>
  ELSE IF d > -256 /\ d < 256 THEN << IF d < 0 THEN -d ELSE d >>
  ELSE Store16(d)

\* line 234 as if the repeat count were let one past 255
RepeatUncapped(flag, last_flag, repeat_count) ==
  flag = last_flag /\ repeat_count # 256

\* line 234: the flag extends the run of the last one
RepeatExtends(flag, last_flag, repeat_count) ==
  flag = last_flag /\ repeat_count # 255

\* one turn of the loop of lines 208-253 (a failed run stays failed);
\* st = [ok, i, last_flag, repeat_count, flags], flags the bytes written
\* from the first flag_offset on
StoreFlagsBody(points, has_overlap_bit, flag_offset, dst_size, st) ==
  IF ~st.ok \/ st.i > Len(points) THEN st
  ELSE
    LET flag == PointFlag(points, st.i, has_overlap_bit)
        n == Len(st.flags)
        counted == IF st.repeat_count # 0
                   THEN Append(st.flags, st.repeat_count) ELSE st.flags
    IN  IF RepeatExtends(flag, st.last_flag, st.repeat_count)
        THEN [st EXCEPT !.i = @ + 1,
                        !.flags[n] = IF HasBit(@, kGlyfRepeat) THEN @ ELSE @ + kGlyfRepeat,
                        !.repeat_count = @ + 1]
        ELSE IF (st.repeat_count # 0 /\ flag_offset + n >= dst_size)
                \/ flag_offset + Len(counted) >= dst_size
        THEN [st EXCEPT !.ok = FALSE]
        ELSE [st EXCEPT !.i = @ + 1, !.flags = Append(counted, flag),
                        !.repeat_count = 0, !.last_flag = flag]

\* `turns` turns of the loop from st on, the first half and then the rest;
\* the loop is left at the first failure (line 239)
RECURSIVE StoreFlagsTurns(_, _, _, _, _, _)
StoreFlagsTurns(points, has_overlap_bit, flag_offset, dst_size, st, turns) ==
  IF turns <= 0 THEN st
  ELSE IF turns = 1
  THEN StoreFlagsBody(points, has_overlap_bit, flag_offset, dst_size, st)
  ELSE LET half == StoreFlagsTurns(points, has_overlap_bit, flag_offset, dst_size,
                                   st, turns \div 2)
       IN  IF ~half.ok THEN half
           ELSE StoreFlagsTurns(points, has_overlap_bit, flag_offset, dst_size,
                                half, turns - turns \div 2)

\* the loop of lines 208-253, from point st.i to the last
StoreFlags(points, has_overlap_bit, flag_offset, dst_size, st) ==
  StoreFlagsTurns(points, has_overlap_bit, flag_offset, dst_size, st,
                  Len(points) - st.i + 1)

\* StorePoints: [ok, bytes, glyph_size], bytes what it writes into dst from
\* its first flag_offset on (flags, x coordinates, y coordinates)
StorePoints(points, n_contours, instruction_length, has_overlap_bit, dst_size) ==
  LET flag_offset == kEndPtsOfContoursOffset + 2 * n_contours + 2 + instruction_length
      run == StoreFlags(points, has_overlap_bit, flag_offset, dst_size,
               [ok |-> TRUE, i |-> 1, last_flag |-> -1, repeat_count |-> 0,
                flags |-> << >>])
      flags == IF run.repeat_count # 0 THEN Append(run.flags, run.repeat_count)
               ELSE run.flags
      xs == Concat([i \in DOMAIN points |->
                      DeltaBytes(points[i].x - (IF i = 1 THEN 0 ELSE points[i - 1].x))],
                   Len(points))
      ys == Concat([i \in DOMAIN points |->
                      DeltaBytes(points[i].y - (IF i = 1 THEN 0 ELSE points[i - 1].y))],
                   Len(points))
      Fail == [ok |-> FALSE, bytes |-> << >>, glyph_size |-> 0]
  IN  IF ~run.ok THEN Fail
      ELSE IF run.repeat_count # 0 /\ flag_offset + Len(run.flags) >= dst_size THEN Fail
      ELSE IF flag_offset + Len(flags) + Len(xs) + Len(ys) > dst_size THEN Fail
      ELSE [ok |-> TRUE, bytes |-> flags \o xs \o ys,
            glyph_size |-> flag_offset + Len(flags) + Len(xs) + Len(ys)]

RECURSIVE MinOver(_, _)
MinOver(f, n) == IF n = 1 THEN f[1] ELSE Min(f[n], MinOver(f, n - 1))
RECURSIVE MaxOver(_, _)
MaxOver(f, n) == IF n = 1 THEN f[1] ELSE Max(f[n], MaxOver(f, n - 1))

\* ComputeBbox: the 8 bytes it stores at offset 2 of the glyph record
ComputeBbox(points) ==
  IF Len(points) = 0 THEN Zeroes(8)
  ELSE LET xs == [i \in DOMAIN points |-> points[i].x]
           ys == [i \in DOMAIN points |-> points[i].y]
           n == Len(points)
       IN  Store16(MinOver(xs, n)) \o Store16(MinOver(ys, n))
           \o Store16(MaxOver(xs, n)) \o Store16(MaxOver(ys, n))

RECURSIVE SizeOfCompositeFrom(_, _, _, _)
\* the loop of lines 333-354 from `offset` on
SizeOfCompositeFrom(composite_stream, start_offset, offset, we_have_instructions) ==
  IF offset + 2 > Len(composite_stream)
  THEN [ok |-> FALSE, size |-> 0, have_instructions |-> FALSE]
  ELSE
    LET flags == U16At(composite_stream, offset)
        arg_size == 2 + (IF HasBit(flags, 1) THEN 4 ELSE 2)
                    + (IF HasBit(flags, 8) THEN 2
                       ELSE IF HasBit(flags, 64) THEN 4
                       ELSE IF HasBit(flags, 128) THEN 8 ELSE 0)
        instructions == we_have_instructions \/ HasBit(flags, 256)
    IN  IF offset + 2 + arg_size > Len(composite_stream)
        THEN [ok |-> FALSE, size |-> 0, have_instructions |-> FALSE]
        ELSE IF HasBit(flags, 32)
        THEN SizeOfCompositeFrom(composite_stream, start_offset,
                                 offset + 2 + arg_size, instructions)
        ELSE [ok |-> TRUE, size |-> offset + 2 + arg_size - start_offset,
              have_instructions |-> instructions]

SizeOfComposite(composite_stream, offset) ==
  SizeOfCompositeFrom(composite_stream, offset, offset, FALSE)

\* StoreLoca: the loca table it writes
StoreLoca(loca_values, index_format) ==
  Concat([k \in DOMAIN loca_values |->
            IF index_format # 0 THEN StoreU32(loca_values[k])
            ELSE Store16(loca_values[k] \div 2)],
         Len(loca_values))

----------------------------------------------------------------------------
(* ReconstructGlyf: one pass of the loop over the glyphs, lines 490-664.    *)

\* bit i of a bitmap, most significant bit first
BitmapBit(bitmap, i) ==
  LET mask == CASE i % 8 = 0 -> 128 [] i % 8 = 1 -> 64 [] i % 8 = 2 -> 32
                [] i % 8 = 3 -> 16 [] i % 8 = 4 -> 8 [] i % 8 = 5 -> 4
                [] i % 8 = 6 -> 2 [] OTHER -> 1
  IN  HasBit(bitmap[(i \div 8) + 1], mask)

RECURSIVE ReadNPoints(_, _, _, _)
\* lines 552-562: the point counts of the contours; total_n_points cannot
\* wrap for the counts of this model
ReadNPoints(n_points_stream, offset, n_contours, n_points_vec) ==
  IF Len(n_points_vec) = n_contours
  THEN [ok |-> TRUE, n_points_vec |-> n_points_vec, offset |-> offset]
  ELSE LET r == Read255UShort(n_points_stream, offset)
       IN  IF ~r.ok THEN [ok |-> FALSE, n_points_vec |-> n_points_vec, offset |-> offset]
           ELSE ReadNPoints(n_points_stream, r.offset, n_contours,
                            Append(n_points_vec, r.value))

\* the end points of lines 611-618, as stored
RECURSIVE EndPoints(_, _)
EndPoints(n_points_vec, k) ==
  IF k = 0 THEN << >>
  ELSE EndPoints(n_points_vec, k - 1) \o Store16(SumOver(n_points_vec, k) - 1)

NoTripletCall == [called |-> FALSE, i |-> 0, total_n_points |-> 0, flags_available |-> 0,
                  requested |-> 0, oob_read |-> FALSE, returned |-> FALSE,
                  bbox_points |-> 0, stored_points |-> 0]

\* fr is the state of the loop: the position in each sub-stream, the sizes
\* of points_view and glyph_buf_view, loca_values, the checksum so far.
\* `oob` is what a read of the flags beyond their span yields.
ReconstructGlyfGlyph(data, fr, x_mins, sink, oob) ==
  LET i == fr.i
      Stream(k) == Subspan(data, fr.spans[k].offset, fr.spans[k].size)
      n_contour_stream == Stream(1)
      n_points_stream == Stream(2)
      flag_stream == Stream(3)
      glyph_stream == Stream(4)
      composite_stream == Stream(5)
      bbox_stream == Stream(6)
      instruction_stream == Stream(7)
      overlap_bitmap == SubspanFrom(data, fr.overlap_offset)
      have_bbox == BitmapBit(bbox_stream, i)
      n_contours == U16At(n_contour_stream, fr.n_contour_offset)
      fr0 == [fr EXCEPT !.n_contour_offset = @ + 2]
      Result(status, glyph, ff, xm, call) ==
        [status |-> status, glyph |-> glyph, frame |-> ff, x_mins |-> xm, call |-> call]
      Fail == Result("fail", << >>, fr, x_mins, NoTripletCall)
      \* lines 645-663
      Emit(glyph, ff, call) ==
        Result("ok", glyph,
               [ff EXCEPT !.i = @ + 1,
                          !.loca_values[i + 1] = Len(sink) - fr.glyf_start,
                          !.glyf_checksum = AddU32(@, ComputeULongSum(glyph))],
               IF n_contours > 0 THEN [x_mins EXCEPT ![i + 1] = S16At(glyph, 2)]
               ELSE x_mins,
               call)
      \* lines 502-546
      Composite ==
        LET comp == SizeOfComposite(composite_stream, fr.composite_offset)
            read == Read255UShort(glyph_stream, fr.glyph_offset)
            instruction_size == IF comp.have_instructions THEN read.value ELSE 0
            glyph_offset == IF comp.have_instructions THEN read.offset ELSE fr.glyph_offset
            size_needed == 12 + comp.size + instruction_size
            glyph == Store16(n_contours)
                     \o Subspan(bbox_stream, fr.bbox_offset, 8)
                     \o Subspan(composite_stream, fr.composite_offset, comp.size)
                     \o (IF comp.have_instructions
                         THEN Store16(instruction_size)
                              \o Subspan(instruction_stream, fr.instruction_offset,
                                         instruction_size)
                         ELSE << >>)
        IN  IF ~have_bbox THEN Fail
            ELSE IF ~comp.ok THEN Fail
            ELSE IF comp.have_instructions /\ ~read.ok THEN Fail
            ELSE IF fr.bbox_offset + 8 > Len(bbox_stream) THEN Fail
            ELSE IF fr.composite_offset + comp.size > Len(composite_stream) THEN Fail
            ELSE IF comp.have_instructions
                    /\ fr.instruction_offset + instruction_size > Len(instruction_stream)
                 THEN Fail
            ELSE Emit(glyph,
                      [fr0 EXCEPT !.glyph_offset = glyph_offset,
                                  !.bbox_offset = @ + 8,
                                  !.composite_offset = @ + comp.size,
                                  !.instruction_offset = @ + instruction_size,
                                  !.glyph_buf_size = Max(@, size_needed)],
                      NoTripletCall)
      \* lines 548-634
      Simple ==
        LET counts == ReadNPoints(n_points_stream, fr.n_points_offset, n_contours, << >>)
            total_n_points == SumOver(counts.n_points_vec, n_contours)
            flag_size == total_n_points
            flags_buf == SubspanFrom(flag_stream, fr.flag_offset)
            triplet_buf == SubspanFrom(glyph_stream, fr.glyph_offset)
            \* lines 571-574: points_view only ever grows
            points_view_size == Max(fr.points_view_size, total_n_points)
            \* line 575: the decoder fills the whole of points_view
            decode == TripletDecode(flags_buf, triplet_buf, points_view_size, oob)
            points_view == decode.points
            read == Read255UShort(glyph_stream,
                                  fr.glyph_offset + decode.in_bytes_consumed)
            instruction_size == read.value
            size_needed == 12 + 2 * n_contours + 5 * total_n_points + instruction_size
            glyph_buf_size == Max(fr.glyph_buf_size, size_needed)
            bbox == IF have_bbox THEN Subspan(bbox_stream, fr.bbox_offset, 8)
                    ELSE ComputeBbox(points_view)
            has_overlap_bit == fr.has_overlap_bitmap /\ BitmapBit(overlap_bitmap, i)
            stored == StorePoints(points_view, n_contours, instruction_size,
                                  has_overlap_bit, glyph_buf_size)
            glyph == Store16(n_contours) \o bbox
                     \o EndPoints(counts.n_points_vec, n_contours)
                     \o Store16(instruction_size)
                     \o Subspan(instruction_stream, fr.instruction_offset, instruction_size)
                     \o stored.bytes
            \* the call of TripletDecode, and what of its result is passed on
            call == [called |-> TRUE, i |-> i, total_n_points |-> total_n_points,
                     flags_available |-> Len(flags_buf),
                     requested |-> points_view_size, oob_read |-> decode.oob_read,
                     returned |-> FALSE, bbox_points |-> 0, stored_points |-> 0]
            FailAfter == Result("fail", << >>, fr, x_mins, call)
        IN  IF ~counts.ok THEN Fail
            ELSE IF flag_size > Len(flags_buf) THEN Fail
            ELSE IF ~decode.ok THEN FailAfter
            ELSE IF ~read.ok THEN FailAfter
            ELSE IF have_bbox /\ fr.bbox_offset + 8 > Len(bbox_stream) THEN FailAfter
            ELSE IF SumOver(counts.n_points_vec, n_contours) - 1 >= 65536 THEN FailAfter
            ELSE IF fr.instruction_offset + instruction_size > Len(instruction_stream)
                 THEN FailAfter
            ELSE IF ~stored.ok THEN FailAfter
            ELSE Emit(glyph,
                      [fr0 EXCEPT !.n_points_offset = counts.offset,
                                  !.flag_offset = @ + flag_size,
                                  !.glyph_offset = read.offset,
                                  !.bbox_offset = @ + (IF have_bbox THEN 8 ELSE 0),
                                  !.instruction_offset = @ + instruction_size,
                                  !.points_view_size = points_view_size,
                                  !.glyph_buf_size = glyph_buf_size],
                      [call EXCEPT !.returned = TRUE,
                                   !.bbox_points = IF have_bbox THEN 0 ELSE Len(points_view),
                                   !.stored_points = Len(points_view)])
  IN  IF fr.n_contour_offset + 2 > Len(n_contour_stream) THEN Fail
      ELSE IF n_contours = 65535 THEN Composite
      ELSE IF n_contours > 0 THEN Simple
      \* n_contours == 0; empty glyph. Must NOT have a bbox.
      ELSE IF have_bbox THEN Fail
      ELSE Emit(<< >>, fr0, NoTripletCall)

----------------------------------------------------------------------------
(* SpecGlyf: ReconstructGlyf, called on its own.                            *)

\* A glyph as its bytes in each sub-stream (`glyph`: its triplets, then its
\* instruction length).
EmptyGlyph ==
  [n_contours |-> 0, n_points |-> << >>, flags |-> << >>, glyph |-> << >>,
   composite |-> << >>, bbox |-> << >>, instructions |-> << >>]
\* one on-curve point (0, 5)
OnePointGlyph ==
  [n_contours |-> 1, n_points |-> << 1 >>, flags |-> << 1 >>, glyph |-> << 5, 0 >>,
   composite |-> << >>, bbox |-> << >>, instructions |-> << >>]
\* two points, the second off-curve
TwoPointGlyph ==
  [n_contours |-> 1, n_points |-> << 2 >>, flags |-> << 11, 149 >>,
   glyph |-> << 7, 35, 0 >>,
   composite |-> << >>, bbox |-> << >>, instructions |-> << >>]
\* one point, an explicit bbox, one instruction byte
BoxedGlyph ==
  [n_contours |-> 1, n_points |-> << 1 >>, flags |-> << 84 >>, glyph |-> << 1, 2, 1 >>,
   composite |-> << >>, bbox |-> << 0, 1, 0, 2, 0, 3, 0, 4 >>, instructions |-> << 9 >>]
\* one component, no instructions
CompositeGlyph ==
  [n_contours |-> 65535, n_points |-> << >>, flags |-> << >>, glyph |-> << >>,
   composite |-> << 0, 0, 0, 1, 2, 3 >>, bbox |-> << 255, 254, 0, 2, 0, 3, 0, 4 >>,
   instructions |-> << >>]

GlyphChoices == { EmptyGlyph, OnePointGlyph, TwoPointGlyph, BoxedGlyph, CompositeGlyph }

\* the bbox bitmap of up to 8 glyphs, padded to 4 bytes per 32 glyphs
RECURSIVE BboxBits(_, _)
BboxBits(glyphs, k) ==
  IF k = 0 THEN 0
  ELSE BboxBits(glyphs, k - 1)
       + (IF glyphs[k].bbox # << >>
          THEN (CASE k = 1 -> 128 [] k = 2 -> 64 [] k = 3 -> 32 [] k = 4 -> 16
                  [] k = 5 -> 8 [] k = 6 -> 4 [] k = 7 -> 2 [] OTHER -> 1)
          ELSE 0)

\* the transformed glyf table of these glyphs: header, sub-streams, and the
\* overlap bitmap (glyph 0 marked) when option_flags asks for one
GlyfRegion(glyphs, option_flags, index_format) ==
  LET n == Len(glyphs)
      Field(F(_)) == Concat([k \in 1..n |-> F(glyphs[k])], n)
      NContours(g) == Store16(g.n_contours)
      NPoints(g) == g.n_points
      Flags(g) == g.flags
      Glyph(g) == g.glyph
      Composite(g) == g.composite
      Bbox(g) == g.bbox
      Instructions(g) == g.instructions
      streams == << Field(NContours), Field(NPoints), Field(Flags), Field(Glyph),
                    Field(Composite),
                    << BboxBits(glyphs, n), 0, 0, 0 >> \o Field(Bbox),
                    Field(Instructions) >>
  IN  << 0, 0 >> \o Store16(option_flags) \o Store16(n) \o Store16(index_format)
      \o Concat([k \in 1..7 |-> StoreU32(Len(streams[k]))], 7)
      \o Concat(streams, 7)
      \o (IF option_flags % 2 = 1 THEN << 128 >> ELSE << >>)

\* The calls: the region alone, as ReconstructFont passes it, or the region
\* followed by a copy of its header, where line 411 looks for it.
GlyfInputs ==
  UNION {
    { LET region == GlyfRegion(glyphs, option_flags, index_format)
      IN  [data |-> region \o (IF tail THEN SubSeq(region, 1, 36) ELSE << >>),
           transform_length |-> Len(region),
           loca_dst_length |-> (IF index_format # 0 THEN 4 ELSE 2) * (Len(glyphs) + 1)
                               + loca_excess] :
        option_flags \in {0, 1}, index_format \in {0, 1}, tail \in BOOLEAN,
        loca_excess \in {0, 2} } :
    glyphs \in SeqsUpTo(GlyphChoices, MaxGlyphs) }

GlyfTables ==
  << [tag |-> kGlyfTableTag, flags |-> kWoff2FlagsTransform, src_offset |-> 0,
      src_length |-> input.transform_length,
      transform_length |-> input.transform_length, dst_offset |-> 0, dst_length |-> 0],
     [tag |-> kLocaTableTag, flags |-> kWoff2FlagsTransform,
      src_offset |-> input.transform_length, src_length |-> 0, transform_length |-> 0,
      dst_offset |-> 0, dst_length |-> input.loca_dst_length] >>

InitGlyf ==
  /\ input \in GlyfInputs
  /\ pc = "ReconstructGlyf"
  /\ hdr = [InitHdr EXCEPT !.tables = GlyfTables, !.num_tables = 2]
  /\ metadata = [InitMetadata EXCEPT !.font_infos = << NewFontInfo(<< >>) >>]
  /\ uncompressed_buf = << >>
  /\ out = << >>
  /\ frame = NoFrame
  /\ hist = InitHist

\* what an out-of-range read of the flags may yield
UBFlagBytes == { 0, 255 }

\* lines 411-489
ReconstructGlyfEnter ==
  /\ pc = "ReconstructGlyf"
  /\ LET h == ReconstructGlyfHeader(input.data, input.transform_length,
                                    hdr.tables[2].dst_length)
     IN  /\ metadata' = [metadata EXCEPT
                           !.font_infos[1].num_glyphs = h.num_glyphs,
                           !.font_infos[1].index_format = h.index_format,
                           !.font_infos[1].x_mins =
                              IF h.ok THEN Zeroes(h.num_glyphs) ELSE @]
         /\ IF h.ok
            THEN /\ pc' = "Glyph"
                 /\ frame' = [i |-> 0, num_glyphs |-> h.num_glyphs,
                              has_overlap_bitmap |-> h.has_overlap_bitmap,
                              spans |-> h.spans, overlap_offset |-> h.overlap_offset,
                              n_contour_offset |-> 0, n_points_offset |-> 0,
                              flag_offset |-> 0, glyph_offset |-> 0,
                              composite_offset |-> 0, bbox_offset |-> h.bitmap_length,
                              instruction_offset |-> 0, points_view_size |-> 0,
                              glyph_buf_size |-> kDefaultGlyphBuf,
                              loca_values |-> Zeroes(h.num_glyphs + 1),
                              glyf_checksum |-> << 0, 0 >>, glyf_start |-> Len(out),
                              loca_checksum |-> << 0, 0 >>]
            ELSE /\ pc' = "failed"
                 /\ UNCHANGED frame
  /\ UNCHANGED << input, hdr, uncompressed_buf, out, hist >>

\* one pass of the loop of lines 490-664.  When TripletDecode reads flags
\* beyond their span the build traps, or goes on with whatever the read gave.
ReconstructGlyfGlyphStep ==
  /\ pc = "Glyph"
  /\ frame.i < frame.num_glyphs
  /\ \E oob \in UBFlagBytes, trap \in BOOLEAN :
       LET r == ReconstructGlyfGlyph(input.data, frame, metadata.font_infos[1].x_mins,
                                     out, oob)
       IN  /\ trap => r.call.oob_read
           /\ ~r.call.oob_read => oob = 0
           /\ hist' = [hist EXCEPT !.triplet_calls =
                         IF r.call.called THEN Append(@, r.call) ELSE @]
           /\ IF trap
              THEN pc' = "trap" /\ UNCHANGED << frame, metadata, out >>
              ELSE IF r.status = "ok"
              THEN /\ pc' = "Glyph"
                   /\ frame' = r.frame
                   /\ metadata' = [metadata EXCEPT !.font_infos[1].x_mins = r.x_mins]
                   /\ out' = Pad4(SinkAppend(out, r.glyph))
              ELSE pc' = "failed" /\ UNCHANGED << frame, metadata, out >>
  /\ UNCHANGED << input, hdr, uncompressed_buf >>

\* lines 666-677
ReconstructGlyfExit ==
  /\ pc = "Glyph"
  /\ frame.i = frame.num_glyphs
  /\ LET dst_length == Len(out) - hdr.tables[1].dst_offset
         loca_values == [frame.loca_values EXCEPT ![frame.num_glyphs + 1] = dst_length]
         loca_content == StoreLoca(loca_values, metadata.font_infos[1].index_format)
     IN  /\ hdr' = [hdr EXCEPT !.tables[1].dst_length = dst_length,
                               !.tables[2].dst_offset = Len(out),
                               !.tables[2].dst_length = Len(loca_content)]
         /\ frame' = [frame EXCEPT !.loca_values = loca_values,
                                   !.loca_checksum = ComputeULongSum(loca_content)]
         /\ out' = SinkAppend(out, loca_content)
  /\ pc' = "done"
  /\ UNCHANGED << input, metadata, uncompressed_buf, hist >>

NextGlyf ==
  \/ ReconstructGlyfEnter
  \/ ReconstructGlyfGlyphStep
  \/ ReconstructGlyfExit

SpecGlyf == InitGlyf /\ [][NextGlyf]_vars

----------------------------------------------------------------------------
(* SpecLoca: the end of ReconstructGlyf, lines 666-677, entered with the    *)
(* sink and loca_values as the loop over the glyphs leaves them.            *)

\* what the loop appends for a simple glyph of one on-curve point (0, 5)
\* with this many zero instruction bytes: n_contours, bbox, endPtsOfContours,
\* instructionLength, instructions, flag, y; padded to 4 bytes
OnePointRecord(instruction_size) ==
  LET glyph == << 0, 1,  0, 0, 0, 5, 0, 0, 0, 5,  0, 0 >>
               \o Store16(instruction_size) \o Zeroes(instruction_size)
               \o << kGlyfOnCurve + kGlyfYShort + kGlyfThisXIsSame + kGlyfThisYIsSame, 5 >>
  IN  glyph \o Zeroes(Round4(Len(glyph)) - Len(glyph))

\* an empty glyph, a glyph without instructions, one with the most
\* instruction bytes a 255UInt16 can announce
GlyphRecordChoices == { << >>, OnePointRecord(0), OnePointRecord(65535) }

LocaInputs ==
  [records : SeqsUpTo(GlyphRecordChoices, MaxLocaGlyphs), index_format : {0, 1}]

InitLoca ==
  /\ input \in LocaInputs
  /\ pc = "Glyph"
  /\ LET n == Len(input.records)
     IN  /\ hdr = [InitHdr EXCEPT !.num_tables = 2, !.tables =
                     << [tag |-> kGlyfTableTag, flags |-> kWoff2FlagsTransform,
                         src_offset |-> 0, src_length |-> 36, transform_length |-> 36,
                         dst_offset |-> 0, dst_length |-> 0],
                        [tag |-> kLocaTableTag, flags |-> kWoff2FlagsTransform,
                         src_offset |-> 36, src_length |-> 0, transform_length |-> 0,
                         dst_offset |-> 0,
                         dst_length |-> (IF input.index_format # 0 THEN 4 ELSE 2) * (n + 1)] >>]
         /\ metadata = [InitMetadata EXCEPT !.font_infos =
                          << [NewFontInfo(<< >>) EXCEPT !.num_glyphs = n,
                                !.index_format = input.index_format,
                                !.x_mins = Zeroes(n)] >> ]
         /\ out = Concat(input.records, n)
         \* loca_values[i] = out->Size() - glyf_start, line 645
         /\ frame = [i |-> n, num_glyphs |-> n, glyf_start |-> 0,
                     loca_checksum |-> << 0, 0 >>,
                     loca_values |->
                       [k \in 1..(n + 1) |->
                          IF k = n + 1 THEN 0
                          ELSE Len(Concat(input.records, k - 1))]]
  /\ uncompressed_buf = << >>
  /\ hist = InitHist

NextLoca == ReconstructGlyfExit

SpecLoca == InitLoca /\ [][NextLoca]_vars

\* the offsets the emitted loca table decodes to, loca[0..num_glyphs]
LocaDecoded ==
  [i \in 0..metadata.font_infos[1].num_glyphs |->
     IF metadata.font_infos[1].index_format # 0
     THEN U32At(out, hdr.tables[2].dst_offset + 4 * i)
     ELSE 2 * U16At(out, hdr.tables[2].dst_offset + 2 * i)]

----------------------------------------------------------------------------
(* SpecPoints: TripletDecode on a flag array and a coordinate stream, then  *)
(* StorePoints on the points it decoded, as lines 568-584 and 630-632 of    *)
(* ReconstructGlyf call them for a glyph of one contour.                    *)

DataByteChoices == { 0, 16, 255 }

\* one point: every flag byte, four data bytes (a flag reads 1 to 4 of them)
SinglePointInputs ==
  { [flags_in |-> << f >>, in |-> d, has_overlap_bit |-> FALSE,
     n_contours |-> 1, instruction_size |-> 0] :
      f \in 0..255, d \in [1..4 -> DataByteChoices] }

\* triplets as << flag byte, data bytes >>: (0, +5) on curve; (+7, 0) off
\* curve; (+65535, -1); (-256, 0); (0, 0)
TripletChoices ==
  { << 1, << 5 >> >>, << 139, << 7 >> >>, << 125, << 255, 255, 0, 1 >> >>,
    << 120, << 16, 0, 0 >> >>, << 0, << 0 >> >> }

TripletsInput(triplets, has_overlap_bit) ==
  [flags_in |-> [k \in DOMAIN triplets |-> triplets[k][1]],
   in |-> Concat([k \in DOMAIN triplets |-> triplets[k][2]], Len(triplets)),
   has_overlap_bit |-> has_overlap_bit, n_contours |-> 1, instruction_size |-> 0]

MultiPointInputs ==
  { TripletsInput(t, o) : t \in SeqsUpTo(TripletChoices, MaxPoints), o \in BOOLEAN }

\* runs of equal points, around the limit of the repeat count
RunInputs ==
  { [flags_in |-> [k \in 1..n |-> t[1]], in |-> [k \in 1..n |-> t[2]],
     has_overlap_bit |-> o, n_contours |-> 1, instruction_size |-> 0] :
      n \in {256, 257, MaxRun}, t \in { << 1, 5 >>, << 0, 0 >> }, o \in BOOLEAN }

\* coordinate streams that end early
TruncatedInputs ==
  { [flags_in |-> << 1, 1 >>, in |-> << 5 >>, has_overlap_bit |-> FALSE,
     n_contours |-> 1, instruction_size |-> 0],
    [flags_in |-> << 125 >>, in |-> << 1, 2 >>, has_overlap_bit |-> FALSE,
     n_contours |-> 1, instruction_size |-> 0] }

PointsInputs == SinglePointInputs \cup MultiPointInputs \cup RunInputs
                \cup TruncatedInputs

InitPoints ==
  /\ input \in PointsInputs
  /\ pc = "TripletDecode"
  /\ hdr = InitHdr
  /\ metadata = InitMetadata
  /\ uncompressed_buf = << >>
  /\ out = << >>
  /\ frame = [points |-> << >>, in_bytes_consumed |-> 0]
  /\ hist = InitHist

\* lines 568-578, total_n_points = flags_buf.size() = points_view.size()
TripletDecodeStep ==
  /\ pc = "TripletDecode"
  /\ LET r == TripletDecode(input.flags_in, input.in, Len(input.flags_in), 0)
     IN  IF r.ok
         THEN /\ pc' = "StorePoints"
              /\ frame' = [points |-> r.points,
                           in_bytes_consumed |-> r.in_bytes_consumed]
         ELSE pc' = "failed" /\ UNCHANGED frame
  /\ UNCHANGED << input, hdr, metadata, uncompressed_buf, out, hist >>

\* lines 594-599 and 630-634: glyph_buf_view holds size_needed bytes at least
StorePointsStep ==
  /\ pc = "StorePoints"
  /\ LET size_needed == 12 + 2 * input.n_contours + 5 * Len(frame.points)
                        + input.instruction_size
         dst_size == Max(kDefaultGlyphBuf, size_needed)
         r == StorePoints(frame.points, input.n_contours, input.instruction_size,
                          input.has_overlap_bit, dst_size)
     IN  /\ IF r.ok
            THEN pc' = "done" /\ out' = r.bytes
            ELSE pc' = "failed" /\ UNCHANGED out
         /\ hist' = [hist EXCEPT !.store_calls =
                       Append(@, [size_needed |-> size_needed, dst_size |-> dst_size,
                                  ok |-> r.ok, glyph_size |-> r.glyph_size])]
  /\ UNCHANGED << input, hdr, metadata, uncompressed_buf, frame >>

NextPoints ==
  \/ TripletDecodeStep
  \/ StorePointsStep

SpecPoints == InitPoints /\ [][NextPoints]_vars


----------------------------------------------------------------------------
(* Properties of TripletDecode and StorePoints, checked under SpecPoints.   *)

\* a simple glyph's flag array read back for n points, from offset pos of
\* bytes: a flag with REPEAT is followed by a count in 1..255 and stands
\* for count + 1 points
RECURSIVE ExpandFlags(_, _, _, _)
ExpandFlags(bytes, pos, n, acc) ==
  IF Len(acc) >= n THEN [ok |-> Len(acc) = n, flags |-> acc, end |-> pos]
  ELSE IF pos + 1 > Len(bytes) THEN [ok |-> FALSE, flags |-> acc, end |-> pos]
  ELSE
    LET f == bytes[pos + 1]
    IN  IF f \notin 0..255 THEN [ok |-> FALSE, flags |-> acc, end |-> pos]
        ELSE IF ~HasBit(f, kGlyfRepeat) THEN ExpandFlags(bytes, pos + 1, n, Append(acc, f))
        ELSE IF pos + 2 > Len(bytes) \/ bytes[pos + 2] \notin 1..255
        THEN [ok |-> FALSE, flags |-> acc, end |-> pos]
        ELSE ExpandFlags(bytes, pos + 2, n,
                         acc \o [k \in 1..(bytes[pos + 2] + 1) |-> f - kGlyfRepeat])

\* the bytes one coordinate takes under a flag: 1 when short, 0 when same, else 2
CoordSize(flag, short, same) ==
  IF HasBit(flag, short) THEN 1 ELSE IF HasBit(flag, same) THEN 0 ELSE 2

\* one coordinate read back under its flag: short is a magnitude whose sign
\* the same-bit gives, same repeats the last value, otherwise a big-endian
\* i16; st = [ok, i, pos, last, values]
ReadCoord(bytes, flags, short, same, st) ==
  IF ~st.ok \/ st.i > Len(flags) THEN st
  ELSE
    LET size == CoordSize(flags[st.i], short, same)
        d == IF size = 1
             THEN (IF HasBit(flags[st.i], same) THEN bytes[st.pos + 1]
                   ELSE -bytes[st.pos + 1])
             ELSE IF size = 0 THEN 0 ELSE S16At(bytes, st.pos)
    IN  IF st.pos + size > Len(bytes) THEN [st EXCEPT !.ok = FALSE]
        ELSE [ok |-> TRUE, i |-> st.i + 1, pos |-> st.pos + size,
              last |-> st.last + d, values |-> Append(st.values, st.last + d)]

\* `count` coordinates read back from st on, the first half and then the rest
RECURSIVE ReadCoordsFrom(_, _, _, _, _, _)
ReadCoordsFrom(bytes, flags, short, same, st, count) ==
  IF count <= 0 THEN st
  ELSE IF count = 1 THEN ReadCoord(bytes, flags, short, same, st)
  ELSE LET half == ReadCoordsFrom(bytes, flags, short, same, st, count \div 2)
       IN  IF ~half.ok THEN half
           ELSE ReadCoordsFrom(bytes, flags, short, same, half, count - count \div 2)

\* one coordinate array read back under the flags
ReadCoords(bytes, flags, short, same, st) ==
  ReadCoordsFrom(bytes, flags, short, same, st, Len(flags))

\* the glyph StorePoints wrote, read back: flags, then xs, then ys
StoredGlyph ==
  LET f == ExpandFlags(out, 0, Len(frame.points), << >>)
      Start(pos) == [ok |-> f.ok, i |-> 1, pos |-> pos, last |-> 0, values |-> << >>]
      xs == ReadCoords(out, f.flags, kGlyfXShort, kGlyfThisXIsSame, Start(f.end))
      ys == ReadCoords(out, f.flags, kGlyfYShort, kGlyfThisYIsSame, Start(xs.pos))
  IN  [ok |-> f.ok /\ xs.ok /\ ys.ok, flags |-> f.flags, flags_end |-> f.end,
       xs |-> xs.values, ys |-> ys.values, end |-> ys.pos]

(* C13: for any point sequence TripletDecode can produce, reading the x and *)
(* y bytes StorePoints emitted according to the emitted flags and adding up *)
(* the deltas from the origin gives back the decoded (x, y) of every point. *)
C13_StoredCoordinatesReproducePoints ==
  pc = "done" =>
    /\ StoredGlyph.ok
    /\ \A i \in DOMAIN frame.points :
         /\ StoredGlyph.xs[i] = frame.points[i].x
         /\ StoredGlyph.ys[i] = frame.points[i].y

Abs(v) == IF v < 0 THEN -v ELSE v

\* the delta TripletDecode computed for point i (from 1)
DecodedDelta(i) ==
  << frame.points[i].x - (IF i = 1 THEN 0 ELSE frame.points[i - 1].x),
     frame.points[i].y - (IF i = 1 THEN 0 ELSE frame.points[i - 1].y) >>

(* C14: the delta TripletDecode computes for a point lies in the range of   *)
(* its flag's class (low 7 bits): 0..9 dx = 0, |dy| <= 1279; 10..19 dy = 0, *)
(* |dx| <= 1279; 20..83 both in 1..64; 84..119 both in 1..768; 120..123     *)
(* both <= 4095; 124..127 both <= 65535; on_curve is the inverse of the     *)
(* flag's high bit.                                                         *)
C14_DeltaInRangeOfFlagClass ==
  pc \in {"StorePoints", "done"} =>
    \A i \in DOMAIN frame.points :
      LET f == input.flags_in[i] % 128
          dx == Abs(DecodedDelta(i)[1])
          dy == Abs(DecodedDelta(i)[2])
      IN  /\ frame.points[i].on_curve = (input.flags_in[i] \div 128 = 0)
          /\ f \in 0..9 => dx = 0 /\ dy <= 1279
          /\ f \in 10..19 => dy = 0 /\ dx <= 1279
          /\ f \in 20..83 => dx \in 1..64 /\ dy \in 1..64
          /\ f \in 84..119 => dx \in 1..768 /\ dy \in 1..768
          /\ f \in 120..123 => dx <= 4095 /\ dy <= 4095
          /\ f \in 124..127 => dx <= 65535 /\ dy <= 65535

\* an off-curve point of the widest class decoded at its largest delta
C14_Witness ==
  /\ pc = "done"
  /\ Len(frame.points) = 1
  /\ input.flags_in[1] = 255
  /\ frame.points[1] = [x |-> 65535, y |-> 65535, on_curve |-> FALSE]

\* the data bytes the claim's table gives a flag
TableDataBytes(f) ==
  IF f \in 0..19 THEN 1 ELSE IF f \in 20..119 THEN 2 ELSE IF f \in 120..123 THEN 3 ELSE 4

\* the data bytes of the triplet encoding on the wire
WireDataBytes(f) ==
  IF f \in 0..83 THEN 1 ELSE IF f \in 84..119 THEN 2 ELSE IF f \in 120..123 THEN 3 ELSE 4

(* C18, as stated: TripletDecode advances the coordinate stream by 1 byte   *)
(* for flags 0..19, 2 for 20..119, 3 for 120..123 and 4 for 124..127, and   *)
(* in_bytes_consumed is the sum of these over the decoded points.           *)
C18_ConsumesBytesOfSpecTable ==
  pc \in {"StorePoints", "done"} =>
    frame.in_bytes_consumed
      = SumOver([i \in DOMAIN input.flags_in |-> TableDataBytes(input.flags_in[i] % 128)],
                Len(input.flags_in))

(* C18, amended: TripletDecode advances the coordinate stream by 1 byte for *)
(* flags 0..83, 2 for 84..119, 3 for 120..123 and 4 for 124..127, and       *)
(* in_bytes_consumed is the sum of these over the decoded points.           *)
C18_ConsumesBytesOfWireFormat ==
  pc \in {"StorePoints", "done"} =>
    frame.in_bytes_consumed
      = SumOver([i \in DOMAIN input.flags_in |-> WireDataBytes(input.flags_in[i] % 128)],
                Len(input.flags_in))

\* a point of class 20..83 decoded from one data byte, with more at hand
C18_Witness ==
  /\ pc = "done"
  /\ Len(input.flags_in) = 1 /\ input.flags_in[1] % 128 \in 20..83
  /\ Len(input.in) = 4
  /\ frame.in_bytes_consumed = 1

(* C19: in the flag array StorePoints emits, every flag with the REPEAT bit *)
(* is followed by one count byte in 1..255, no other flag is followed by a  *)
(* count byte, and expanding each (flag, count) into count + 1 copies gives *)
(* one flag per point, in point order, the flag computed for that point.    *)
C19_FlagRunsExpandToPointFlags ==
  pc = "done" =>
    LET n == Len(frame.points)
        f == ExpandFlags(out, 0, n, << >>)
        Computed(i) == PointFlag(frame.points, i, input.has_overlap_bit)
    IN  /\ f.ok
        /\ f.flags = [i \in 1..n |-> Computed(i)]
        \* the flag array ends where the coordinates of these flags begin
        /\ Len(out) = f.end
             + SumOver([i \in 1..n |->
                          CoordSize(Computed(i), kGlyfXShort, kGlyfThisXIsSame)
                          + CoordSize(Computed(i), kGlyfYShort, kGlyfThisYIsSame)], n)

\* a run longer than one count byte holds: flag, 255, flag, 1
C19_Witness ==
  /\ pc = "done"
  /\ Len(frame.points) = MaxRun
  /\ ~input.has_overlap_bit
  /\ HasBit(out[1], kGlyfRepeat) /\ out[2] = 255
  /\ HasBit(out[3], kGlyfRepeat) /\ out[4] = 1


\* C22: every random-access Write that ReconstructFont issues (the 12 bytes
\* of a directory entry, the 4 bytes of checkSumAdjustment) ends inside
\* what the sink holds at that moment, and a directory patch lands on an
\* entry of the font being rebuilt whose tag field is the table's tag
C22_PatchesStayInsideTheSink ==
  \A k \in DOMAIN hist.patches :
    LET p == hist.patches[k]
    IN  /\ p.offset + p.length <= p.size
        /\ p.kind = "entry" =>
             /\ p.offset - 4 \in Range(FontEntryOffsets(hdr, p.font_index))
             /\ U32At(out, p.offset - 4) = p.tag

\* a collection is decoded whose second font has patched an entry for a
\* table it reuses, and its head
C22_Witness ==
  /\ pc = "done"
  /\ \E k \in DOMAIN hist.patches :
       /\ hist.patches[k].kind = "entry"
       /\ hist.patches[k].font_index = 1
       /\ hist.patches[k].offset > kSfntHeaderSize + 4
  /\ \E k \in DOMAIN hist.patches :
       hist.patches[k].kind = "head" /\ hist.patches[k].font_index = 1

\* C23: at every call of ReconstructTransformedHmtx the x_mins of the font
\* has exactly num_glyphs elements (the assertion of line 731)
C23_XMinsSizedByNumGlyphs ==
  \A k \in DOMAIN hist.hmtx_calls :
    Len(hist.hmtx_calls[k].x_mins) = hist.hmtx_calls[k].num_glyphs

\* the function was called for a font whose hhea was read before
C23_Witness ==
  \E k \in DOMAIN hist.hmtx_calls :
    /\ hist.hmtx_calls[k].num_hmetrics = 1
    /\ hist.hmtx_calls[k].before >= 1

\* the tables of font c.font_index that were processed before the call c
\* of ReconstructTransformedHmtx, as steps of the log
EarlierInPass(c) ==
  { j \in 1..c.before : hist.log[j].font_index = c.font_index }

\* the font's transformed glyf was reconstructed before the call
GlyfReconstructedBefore(c) ==
  \E j \in EarlierInPass(c) :
    /\ hist.log[j].tag = kGlyfTableTag
    /\ ~hist.log[j].reused
    /\ HasTransform(hdr.tables[hist.log[j].table])

\* the font's hhea was read before the call
HheaReadBefore(c) ==
  \E j \in EarlierInPass(c) : hist.log[j].tag = kHheaTableTag

\* C24: a call of ReconstructTransformedHmtx succeeds only when the font's
\* transformed glyf and its hhea were processed earlier in the pass; a call
\* without them (hmtx reached first, glyf reused from an earlier font) fails,
\* the decode fails, and no hmtx is emitted for the font
C24_HmtxNeedsGlyfAndHhea ==
  \A k \in DOMAIN hist.hmtx_calls :
    LET c == hist.hmtx_calls[k]
    IN  /\ c.ok => GlyfReconstructedBefore(c) /\ HheaReadBefore(c)
        /\ ~(GlyfReconstructedBefore(c) /\ HheaReadBefore(c)) =>
             /\ ~c.ok
             /\ pc = "failed"
             /\ ~\E j \in DOMAIN hist.log :
                   /\ hist.log[j].font_index = c.font_index
                   /\ hist.log[j].tag = kHmtxTableTag
                   /\ ~hist.log[j].reused

\* the second font of a collection reuses the glyf of the first and comes
\* to its own transformed hmtx
C24_Witness ==
  /\ pc = "failed"
  /\ \E k \in DOMAIN hist.hmtx_calls :
       /\ hist.hmtx_calls[k].font_index = 1
       /\ \E j \in EarlierInPass(hist.hmtx_calls[k]) :
            hist.log[j].tag = kGlyfTableTag /\ hist.log[j].reused

----------------------------------------------------------------------------
(* SpecGlyphBuf: TripletDecode and StorePoints on glyphs of several contour *)
(* and instruction counts, and on glyphs whose size_needed passes the       *)
(* kDefaultGlyphBuf bytes the glyph buffer starts with.                     *)

\* the points of the largest glyph: with one contour and no instructions
\* size_needed is kDefaultGlyphBuf + 4
MaxGlyphPoints == 1022

\* n points whose deltas are all -256 or all +256 in turn, off and on curve
\* in turn: no flag repeats the one before, every delta takes two bytes
WidePointsInput(n) ==
  [flags_in |-> [k \in 1..n |-> IF k % 2 = 1 THEN 124 ELSE 255],
   in |-> Concat([k \in 1..n |-> << 1, 0, 1, 0 >>], n),
   has_overlap_bit |-> FALSE, n_contours |-> 1, instruction_size |-> 0]

GlyphBufInputs ==
  { [in EXCEPT !.n_contours = n, !.instruction_size = s] :
      in \in MultiPointInputs, n \in {1, 2}, s \in {0, 3} }
  \cup { WidePointsInput(n) : n \in {MaxGlyphPoints - 1, MaxGlyphPoints} }

InitGlyphBuf ==
  /\ input \in GlyphBufInputs
  /\ pc = "TripletDecode"
  /\ hdr = InitHdr
  /\ metadata = InitMetadata
  /\ uncompressed_buf = << >>
  /\ out = << >>
  /\ frame = [points |-> << >>, in_bytes_consumed |-> 0]
  /\ hist = InitHist

NextGlyphBuf ==
  \/ TripletDecodeStep
  \/ StorePointsStep

SpecGlyphBuf == InitGlyphBuf /\ [][NextGlyphBuf]_vars

\* C25: for a glyph of exactly total_n_points points StorePoints succeeds
\* and its record ends within 12 + 2 * n_contours + 5 * total_n_points +
\* instruction_size bytes, which the glyph buffer holds
C25_RecordFitsSizeNeeded ==
  \A k \in DOMAIN hist.store_calls :
    LET c == hist.store_calls[k]
    IN  /\ c.ok
        /\ c.glyph_size <= c.size_needed
        /\ c.size_needed <= c.dst_size

\* a glyph that needs more than the buffer's first size, and fills the new
\* buffer to its last byte
C25_Witness ==
  /\ pc = "done"
  /\ \E k \in DOMAIN hist.store_calls :
       /\ hist.store_calls[k].size_needed > kDefaultGlyphBuf
       /\ hist.store_calls[k].dst_size = hist.store_calls[k].size_needed
       /\ hist.store_calls[k].glyph_size = hist.store_calls[k].size_needed

----------------------------------------------------------------------------
(* SpecTtcHeader: ReadWOFF2Header on collections with glyf and loca tables. *)

TtcGlyfTableChoices == { RawGlyfEntry, RawLocaEntry }

\* collections over every such directory, with a font that lists indices of
\* the directory and the first index beyond it, alone or (for the lists of
\* one or two indices) after a font of the first table only
TtcGlyfInputs ==
  UNION { { MakeInput(kTtcFontFlavor, 65536, d,
                      << [flavor |-> 65536, table_indices |-> l] >>) :
              l \in SeqsUpTo(0..Len(d), MaxTtcGlyfIndices) }
          \cup
          { MakeInput(kTtcFontFlavor, 65536, d,
                      << [flavor |-> 65536, table_indices |-> << 0 >>],
                         [flavor |-> 65536, table_indices |-> l] >>) :
              l \in SeqsUpTo(0..Len(d), 2) } :
          d \in SeqsUpTo(TtcGlyfTableChoices, MaxTtcGlyfTables) }

InitTtcHeader ==
  /\ input \in TtcGlyfInputs
  /\ pc = "ReadWOFF2Header"
  /\ hdr = InitHdr
  /\ metadata = InitMetadata
  /\ uncompressed_buf = << >>
  /\ out = << >>
  /\ frame = NoFrame
  /\ hist = InitHist

NextTtcHeader == ReadHeaderStep

SpecTtcHeader == InitTtcHeader /\ [][NextTtcHeader]_vars

\* the font lists an index that is not one of the directory
ListsIndexOutOfRange(font) ==
  \E j \in DOMAIN font.table_indices : font.table_indices[j] >= Len(input.directory)

\* the font lists a glyf table and a loca table that does not directly
\* follow it in the directory
ListsGlyfLocaApart(font) ==
  \E j1, j2 \in DOMAIN font.table_indices :
    LET g == font.table_indices[j1]
        l == font.table_indices[j2]
    IN  /\ g < Len(input.directory) /\ l < Len(input.directory)
        /\ input.directory[g + 1].tag = kGlyfTableTag
        /\ input.directory[l + 1].tag = kLocaTableTag
        /\ l # g + 1

(* C17: ReadWOFF2Header fails for a collection whenever some font lists a   *)
(* table index >= the number of directory tables, or lists both a glyf and  *)
(* a loca table whose directory indices are not g and g + 1, the glyf table *)
(* at directory index 0 included.                                           *)
C17_TtcIndicesChecked ==
  ( /\ pc # "ReadWOFF2Header"
    /\ \E k \in DOMAIN input.fonts :
         ListsIndexOutOfRange(input.fonts[k]) \/ ListsGlyfLocaApart(input.fonts[k]) )
    => pc = "failed"


----------------------------------------------------------------------------
(* SpecOffsetTable: StoreOffsetTable, called on its own.                    *)

OffsetTableInputs ==
  { [flavor |-> flavor, num_tables |-> num_tables] :
      flavor \in {65536, kTtcFontFlavor},
      num_tables \in (1..MaxSmallNumTables)
                     \cup {2047, 2048, 4095, 4096, 4097, 8191, 8192, 32768, 65535} }

InitOffsetTable ==
  /\ input \in OffsetTableInputs
  /\ pc = "StoreOffsetTable"
  /\ hdr = InitHdr
  /\ metadata = InitMetadata
  /\ uncompressed_buf = << >>
  /\ out = << >>
  /\ frame = NoFrame
  /\ hist = InitHist

\* the 12 bytes written into the result buffer
StoreOffsetTableStep ==
  /\ pc = "StoreOffsetTable"
  /\ out' = StoreOffsetTable(input.flavor, input.num_tables)
  /\ pc' = "done"
  /\ UNCHANGED << input, hdr, metadata, uncompressed_buf, frame, hist >>

NextOffsetTable == StoreOffsetTableStep

SpecOffsetTable == InitOffsetTable /\ [][NextOffsetTable]_vars

\* the u16 field at offset pos (from 0) of the offset table written
OffsetTableField(pos) == 256 * out[pos + 1] + out[pos + 2]

(* C20: for every table count n in 1..65535 StoreOffsetTable writes the     *)
(* 16-bit fields searchRange = 16 * 2^k, entrySelector = k and rangeShift = *)
(* 16 * n - searchRange, 2^k the largest power of two <= n, each field      *)
(* holding the exact value.                                                 *)
C20_OffsetTableFieldsExact ==
  pc = "done" =>
    LET n == input.num_tables
        k == CHOOSE e \in 0..15 : 2 ^ e <= n /\ n < 2 ^ (e + 1)
    IN  /\ Len(out) = 12
        /\ OffsetTableField(6) = 16 * 2 ^ k
        /\ OffsetTableField(8) = k
        /\ OffsetTableField(10) = 16 * n - 16 * 2 ^ k


----------------------------------------------------------------------------
(* SpecDirectory: ReadTableDirectory and lines 1142-1147 on lengths of the  *)
(* whole uint32_t range.  A length is kept as <<high half, low half>>, as   *)
(* the checksums are: 2^32 - 1 is beyond the integers of the checker.       *)

MaxDirTables == 3

\* uint32_t a < b
LessU32(a, b) == a[1] < b[1] \/ (a[1] = b[1] /\ a[2] < b[2])

\* line 851 as if the sum could not wrap
OffsetWrapIgnored(src_offset, transform_length) == FALSE

\* line 851: src_offset + transform_length < src_offset
OffsetWraps(src_offset, transform_length) ==
  LessU32(AddU32(src_offset, transform_length), src_offset)

\* the loop of lines 811-862 from table i on; directory[i] holds what the
\* flag byte and the two ReadBase128 calls yield for the entry
RECURSIVE ReadTableDirectoryU32From(_, _, _, _)
ReadTableDirectoryU32From(directory, i, src_offset, tables) ==
  IF i > Len(directory) THEN [ok |-> TRUE, tables |-> tables]
  ELSE
    LET e == directory[i]
        transformed == IsTransformed(e.tag, e.xform_version)
        flags == (IF transformed THEN kWoff2FlagsTransform ELSE 0) + e.xform_version
        transform_length == IF transformed THEN e.transform_length ELSE e.dst_length
    IN  IF transformed /\ e.tag = kLocaTableTag /\ transform_length # << 0, 0 >>
        THEN [ok |-> FALSE, tables |-> tables]
        ELSE IF OffsetWraps(src_offset, transform_length)
        THEN [ok |-> FALSE, tables |-> tables]
        ELSE ReadTableDirectoryU32From(directory, i + 1,
               AddU32(src_offset, transform_length),
               Append(tables,
                 [tag |-> e.tag, flags |-> flags, src_offset |-> src_offset,
                  src_length |-> transform_length,
                  transform_length |-> transform_length,
                  dst_length |-> e.dst_length]))

ReadTableDirectoryU32(directory) ==
  ReadTableDirectoryU32From(directory, 1, << 0, 0 >>, << >>)

\* 0, 1, 2^31 - 1, 2^31, 2^32 - 2 and 2^32 - 1
LengthChoices ==
  { << 0, 0 >>, << 0, 1 >>, << 32767, 65535 >>, << 32768, 0 >>,
    << 65535, 65534 >>, << 65535, 65535 >> }

\* an untransformed head of each length, a transformed glyf of each
\* transformed length, and a transformed loca of transformed length 0 or 1
DirEntryChoices ==
  { [tag |-> kHeadTableTag, xform_version |-> 0, dst_length |-> l,
     transform_length |-> l] : l \in LengthChoices }
  \cup { [tag |-> kGlyfTableTag, xform_version |-> 0, dst_length |-> << 0, 1 >>,
          transform_length |-> l] : l \in LengthChoices }
  \cup { [tag |-> kLocaTableTag, xform_version |-> 0, dst_length |-> << 0, 1 >>,
          transform_length |-> l] : l \in { << 0, 0 >>, << 0, 1 >> } }

DirectoryInputs ==
  { [directory |-> d] : d \in SeqsUpTo(DirEntryChoices, MaxDirTables) \ { << >> } }

InitDirectory ==
  /\ input \in DirectoryInputs
  /\ pc = "ReadTableDirectory"
  /\ hdr = InitHdr
  /\ metadata = InitMetadata
  /\ uncompressed_buf = << >>
  /\ out = << >>
  /\ frame = NoFrame
  /\ hist = InitHist

\* lines 1137-1147 of ReadWOFF2Header: the directory is read and the end of
\* the last table becomes the uncompressed size
ReadTableDirectoryStep ==
  /\ pc = "ReadTableDirectory"
  /\ LET dir == ReadTableDirectoryU32(input.directory)
         last_table == dir.tables[Len(dir.tables)]
         uncompressed_size == AddU32(last_table.src_offset, last_table.src_length)
     IN  IF ~dir.ok
         THEN /\ hdr' = [hdr EXCEPT !.num_tables = Len(input.directory),
                                    !.tables = dir.tables]
              /\ pc' = "failed"
         ELSE /\ hdr' = [hdr EXCEPT !.num_tables = Len(input.directory),
                                    !.tables = dir.tables,
                                    !.uncompressed_size = uncompressed_size]
              /\ pc' = IF LessU32(uncompressed_size, last_table.src_offset)
                       THEN "failed" ELSE "done"
  /\ UNCHANGED << input, metadata, uncompressed_buf, out, frame, hist >>

NextDirectory == ReadTableDirectoryStep

SpecDirectory == InitDirectory /\ [][NextDirectory]_vars

\* a + b of two uint32_t without the wrap: the high half may pass 65535
ExactSum(a, b) ==
  << a[1] + b[1] + ((a[2] + b[2]) \div 65536), (a[2] + b[2]) % 65536 >>

\* the sum of all src_length values, likewise
TotalSrcLength(tables) ==
  LET lo == SumOver([k \in DOMAIN tables |-> tables[k].src_length[2]], Len(tables))
      hi == SumOver([k \in DOMAIN tables |-> tables[k].src_length[1]], Len(tables))
  IN  << hi + (lo \div 65536), lo % 65536 >>

\* C21: after the directory is read the first table starts at 0, each next
\* one where the one before ends (the unwrapped sum, which fits 32 bits),
\* the uncompressed size is the sum of all source lengths, and so every
\* table ends inside the payload
C21_TablesTileThePayload ==
  pc = "done" =>
    LET tables == hdr.tables
    IN  /\ Len(tables) = Len(input.directory)
        /\ tables[1].src_offset = << 0, 0 >>
        /\ \A i \in 1..(Len(tables) - 1) :
             /\ ExactSum(tables[i].src_offset, tables[i].src_length)[1] < 65536
             /\ tables[i + 1].src_offset
                  = ExactSum(tables[i].src_offset, tables[i].src_length)
        /\ hdr.uncompressed_size = TotalSrcLength(tables)
        /\ \A i \in DOMAIN tables :
             LET end == ExactSum(tables[i].src_offset, tables[i].src_length)
             IN  end = hdr.uncompressed_size \/ LessU32(end, hdr.uncompressed_size)

\* three tables of 2^31, 2^31 - 1 and 0 bytes fill the 32 bits to the last
C21_Witness ==
  /\ pc = "done"
  /\ Len(hdr.tables) = MaxDirTables
  /\ hdr.tables[2].src_offset = << 32768, 0 >>
  /\ hdr.tables[3].src_offset = << 65535, 65535 >>
  /\ hdr.uncompressed_size = << 65535, 65535 >>

====
